---- MODULE Spec2Model ----
(***************************************************************************)
(* Model of MyWallpapers/app: the desktop window layer                     *)
(* (src-tauri/src/window_layer.rs) and the companion WH_GETMESSAGE hook    *)
(* (hook-dll/src/lib.rs).                                                  *)
(*                                                                         *)
(* Window handles are triples <<class name, shell generation, role>>;      *)
(* NULL_HWND is the zero handle.  Machine words that do not fit TLC's      *)
(* integers are kept as little-endian tuples of 16-bit limbs, so that a    *)
(* shift by 16 or 32 bits is a limb position and `as u16` / `as i16` are   *)
(* computed as the code computes them.                                     *)
(***************************************************************************)
EXTENDS Integers, Sequences, FiniteSets, TLC

VARIABLES
    \* mouse_hook statics (window_layer.rs 585-594)
    WEBVIEW_HWND, SYSLISTVIEW_HWND, TARGET_PARENT_HWND, PROGMAN_HWND,
    EXPLORER_PID, DESKTOP_CORE_HWND, COMP_CONTROLLER_PTR, DRAG_VK,
    DISPATCH_HWND, CHROME_RWHH,
    \* hook_proc function-local statics (window_layer.rs 949-954)
    LAST_DOWN_TIME, LAST_DOWN_X, LAST_DOWN_Y,
    \* window_layer statics (window_layer.rs 9-15)
    ICONS_RESTORED, HOOK_HANDLE_GLOBAL, IS_SESSION_ACTIVE, WATCHDOG_PARENT,
    \* the operating system as the hook sees it
    now,            \* tick count stamped on the next pointer event
    held,           \* mouse buttons physically down (GetAsyncKeyState)
    slvVisible,     \* IsWindowVisible(SysListView32)
    wvOrigin,       \* screen position of the content surface's client area
    dispatchQueue,  \* message queue of the MWP_MouseDispatch window
    \* the desktop shell and the content surface's place in it
    shellGen,       \* generation of the explorer shell whose windows exist
    progmanUp,      \* the shell root window exists
    workerUp,       \* the wallpaper WorkerW of this generation exists
    topology,       \* icon view "direct" under Progman, "nested" under a WorkerW,
                    \* or "bare": the shell has no icon view
    ourParent,      \* GetParent(content surface)
    virtualScreen,  \* <<width, height>> of the bounding box of all monitors
    spawnLeft,      \* spawn signals this shell still needs before it creates the WorkerW
    ourWindow,      \* styles, subclass, place and size of the content surface
    \* threads of the window layer and the hooks the system holds for it
    setupPc,        \* ensure_in_worker_w: "none", "done" or "failed"
    hookPc,         \* hook thread: "none", "start", "installed", "run" or "failed"
    hooksInstalled, \* handles of the low-level mouse hooks currently installed
    tdPc,           \* per caller of restore_desktop_icons_and_unhook, its position
    tdReturned,     \* per caller, the calls of it that have returned
    tdLog,          \* the operations teardown calls have performed, in order
    \* the marker properties the WH_GETMESSAGE hook reads in the browser process
    props,          \* per window, the properties set on it
    \* observations
    lastHook,       \* what the latest hook_proc call was given and did
    lastDispatch,   \* what the latest dispatch_wnd_proc call was given and did
    gesture,        \* the press..release interaction in progress
    prevPress,      \* per button, its latest press posted to the icon layer
    forwardedDown,  \* buttons down since a press forwarded to the content surface
    relayTrace,     \* while recording: relay messages posted, renderer calls made
    lastDetect,     \* what the latest detect_desktop call found
    lastWatchdog,   \* what the latest watchdog cycle saw and did
    lastInject,     \* what the latest apply_injection call was given and found
    lastToggle,     \* what the latest set_desktop_icons_visible call was given and did
    lastLeave,      \* what the latest mouseleave_hook_proc call was given and did
    lastCommand,    \* what the latest command-layer validation was given and returned
    \* background threads
    pollThread,     \* the thread of ensure_in_worker_w that waits for the renderer
    MONITOR_RUNNING,\* system_monitor.rs 100
    monitorThreads  \* per thread start_monitor has spawned, its position

hookStatics == <<WEBVIEW_HWND, SYSLISTVIEW_HWND, TARGET_PARENT_HWND, PROGMAN_HWND,
                 EXPLORER_PID, DESKTOP_CORE_HWND, COMP_CONTROLLER_PTR, DRAG_VK,
                 DISPATCH_HWND, CHROME_RWHH>>
lastDown == <<LAST_DOWN_TIME, LAST_DOWN_X, LAST_DOWN_Y>>
layerStatics == <<ICONS_RESTORED, HOOK_HANDLE_GLOBAL, IS_SESSION_ACTIVE, WATCHDOG_PARENT>>
hookEnv == <<now, held, slvVisible, wvOrigin, dispatchQueue>>
hookObs == <<lastHook, lastDispatch, gesture, prevPress, forwardedDown, relayTrace>>
shellEnv == <<shellGen, progmanUp, workerUp, topology, ourParent, virtualScreen,
              spawnLeft, ourWindow>>
lifecycle == <<setupPc, hookPc, hooksInstalled, tdPc, tdReturned, tdLog>>
watchObs == <<lastDetect, lastWatchdog, lastInject, lastToggle>>
leaveVars == <<props, lastLeave>>
commandObs == <<lastCommand>>
workerVars == <<pollThread, MONITOR_RUNNING, monitorThreads>>
vars == <<hookStatics, lastDown, layerStatics, hookEnv, hookObs, shellEnv, lifecycle,
          watchObs, leaveVars, commandObs, workerVars>>

-----------------------------------------------------------------------------
(* Bounds of the model *)

\* the tick count stops advancing here
MaxTime == 3
\* messages the dispatch window's queue holds before the hook has to wait
MaxQueue == 2
\* GetDoubleClickTime() of the modelled machine, in ticks
DoubleClickTime == 1
\* GetSystemMetrics(SM_CXDOUBLECLK) and (SM_CYDOUBLECLK) of the modelled machine
CxDoubleClk == 4
CyDoubleClk == 4
\* explorer generations: the shell restarts MaxShellGen - 1 times
MaxShellGen == 3
\* the most spawn messages a shell needs before it creates its WorkerW
MaxSignals == 4
\* calls of teardown per caller
MaxCalls == 2
\* relay messages the hook posts while the relay is being recorded
MaxPosted == 3

-----------------------------------------------------------------------------
(* Message numbers and key-state masks *)

MOUSE_MOVE == 512
MOUSE_LDOWN == 513
MOUSE_LUP == 514
MOUSE_RDOWN == 516
MOUSE_RUP == 517
MOUSE_MDOWN == 519
MOUSE_MUP == 520
MOUSE_WHEEL == 522
MOUSE_HWHEEL == 526
WM_LBUTTONDBLCLK == 515
MK_NONE == 0
MK_LBUTTON == 1
MK_RBUTTON == 2
MK_SHIFT == 4
MK_CONTROL == 8
MK_MBUTTON == 16
WM_MWP_MOUSE == 32810
WM_MWP_SETBOUNDS_PUB == 32811
WM_WTSSESSION_CHANGE == 689
WTS_SESSION_LOCK == 7
WTS_SESSION_UNLOCK == 8

PressMsgs == {MOUSE_LDOWN, MOUSE_RDOWN, MOUSE_MDOWN}
ReleaseMsgs == {MOUSE_LUP, MOUSE_RUP, MOUSE_MUP}
WheelMsgs == {MOUSE_WHEEL, MOUSE_HWHEEL}
PointerMsgs == {MOUSE_MOVE} \cup PressMsgs \cup ReleaseMsgs \cup WheelMsgs

\* the button a press or release message is about
ButtonOf(msg) ==
    IF msg \in {MOUSE_LDOWN, MOUSE_LUP} THEN "L"
    ELSE IF msg \in {MOUSE_RDOWN, MOUSE_RUP} THEN "R"
    ELSE IF msg \in {MOUSE_MDOWN, MOUSE_MUP} THEN "M"
    ELSE "none"

-----------------------------------------------------------------------------
(* Windows and processes of the modelled machine *)

Hwnd(class, gen, tag) == <<class, gen, tag>>
NULL_HWND == Hwnd("", 0, "")
ClassOf(h) == h[1]

\* the content surface (the Tauri webview window)
OurHwnd == Hwnd("WebviewWindow", 0, "content")
Progman(g) == Hwnd("Progman", g, "root")
\* the WorkerW behind the icons, created on the spawn message
WallpaperWorkerW(g) == Hwnd("WorkerW", g, "wallpaper")
\* the top-level WorkerW that hosts the icon view in the nested topology
IconHostWorkerW(g) == Hwnd("WorkerW", g, "iconhost")
DefView(g) == Hwnd("SHELLDLL_DefView", g, "icons")
ListView(g) == Hwnd("SysListView32", g, "icons")
\* explorer's CoreWindow, and a CoreWindow of another application
ShellCoreWindow == Hwnd("Windows.UI.Core.CoreWindow", 0, "explorer")
ForeignCoreWindow == Hwnd("Windows.UI.Core.CoreWindow", 0, "foreign")
\* the renderer's input window in our WebView2, and one of an unrelated browser
OurRwhh == Hwnd("Chrome_RenderWidgetHostHWND", 0, "ours")
ForeignRwhh == Hwnd("Chrome_RenderWidgetHostHWND", 0, "foreign")
\* further windows of that class: a second one of our WebView2, one whose
\* parent window is created by our own process, one whose parent window
\* belongs to a grandchild process, one without a parent window, one of
\* another wallpaper application parented to the shell root, and one of an
\* unrelated process that is parented to a window of our process
PopupRwhh == Hwnd("Chrome_RenderWidgetHostHWND", 0, "popup")
InProcessRwhh == Hwnd("Chrome_RenderWidgetHostHWND", 0, "inproc")
HelperRwhh == Hwnd("Chrome_RenderWidgetHostHWND", 0, "helper")
OrphanRwhh == Hwnd("Chrome_RenderWidgetHostHWND", 0, "orphan")
DesktopRwhh == Hwnd("Chrome_RenderWidgetHostHWND", 0, "desktop")
EmbeddedRwhh == Hwnd("Chrome_RenderWidgetHostHWND", 0, "embedded")
\* an ordinary application window
AppWindow == Hwnd("Notepad", 0, "app")

Pid == [our |-> 4000, browser |-> 4004, explorer |-> 1200, foreign |-> 7000,
        foreignChild |-> 7004, helper |-> 4008]

\* GetWindowThreadProcessId(h): the owning process, 0 for no window
WindowPid(h) ==
    IF ClassOf(h) \in {"Progman", "WorkerW", "SHELLDLL_DefView", "SysListView32"}
    THEN Pid.explorer
    ELSE IF h = ShellCoreWindow THEN Pid.explorer
    ELSE IF h = ForeignCoreWindow THEN Pid.foreign
    ELSE IF h = OurHwnd THEN Pid.our
    ELSE IF h = Hwnd("Chrome_WidgetWin_1", 0, "ours") THEN Pid.browser
    ELSE IF h = Hwnd("Chrome_WidgetWin_1", 0, "foreign") THEN Pid.foreignChild
    ELSE IF h = AppWindow THEN Pid.foreign
    ELSE IF h \in {OurRwhh, PopupRwhh, Hwnd("Chrome_WidgetWin_1", 0, "popup")}
    THEN Pid.browser
    ELSE IF h \in {InProcessRwhh, Hwnd("Chrome_WidgetWin_1", 0, "inproc"),
                   Hwnd("Chrome_WidgetWin_1", 0, "embedded")}
    THEN Pid.our
    ELSE IF h \in {HelperRwhh, Hwnd("Chrome_WidgetWin_1", 0, "helper")}
    THEN Pid.helper
    ELSE IF h \in {ForeignRwhh, DesktopRwhh, Hwnd("Chrome_WidgetWin_1", 0, "desktop")}
    THEN Pid.foreignChild
    ELSE IF h \in {OrphanRwhh, EmbeddedRwhh} THEN Pid.foreign
    ELSE 0

\* the process snapshot: the parent of a process, as a set of at most one pid
ProcessParent(pid) ==
    IF pid = Pid.browser THEN {Pid.our}
    ELSE IF pid = Pid.helper THEN {Pid.browser}
    ELSE IF pid = Pid.foreignChild THEN {Pid.foreign}
    ELSE IF pid = Pid.our THEN {Pid.explorer}
    ELSE {}

\* IsWindow(h)
IsWindow(h) ==
    IF h = NULL_HWND THEN FALSE
    ELSE IF ClassOf(h) = "Progman"
    THEN progmanUp /\ h[2] = shellGen
    ELSE IF ClassOf(h) \in {"SHELLDLL_DefView", "SysListView32"}
    THEN progmanUp /\ h[2] = shellGen /\ topology /= "bare"
    ELSE IF ClassOf(h) = "WorkerW"
    THEN /\ progmanUp
         /\ h[2] = shellGen
         /\ IF h[3] = "wallpaper" THEN workerUp ELSE topology = "nested"
    ELSE IF h \in {DesktopRwhh, Hwnd("Chrome_WidgetWin_1", 0, "desktop")}
    THEN progmanUp
    ELSE TRUE

\* where the shell puts each of its windows: the parent, NULL_HWND for top level
ShellParent(h) ==
    IF ClassOf(h) = "SysListView32" THEN DefView(h[2])
    ELSE IF ClassOf(h) = "SHELLDLL_DefView"
    THEN IF topology = "nested" THEN IconHostWorkerW(h[2]) ELSE Progman(h[2])
    ELSE IF ClassOf(h) = "WorkerW" /\ h[3] = "wallpaper" /\ topology = "direct"
    THEN Progman(h[2])
    ELSE IF h = OrphanRwhh THEN NULL_HWND
    ELSE IF ClassOf(h) = "Chrome_RenderWidgetHostHWND"
    THEN Hwnd("Chrome_WidgetWin_1", 0, h[3])
    ELSE IF h = Hwnd("Chrome_WidgetWin_1", 0, "desktop") THEN Progman(shellGen)
    ELSE NULL_HWND

\* GetParent(h)
GetParent(h) ==
    IF h = OurHwnd THEN (IF IsWindow(ourParent) THEN ourParent ELSE NULL_HWND)
    ELSE IF ~IsWindow(h) THEN NULL_HWND
    ELSE ShellParent(h)

\* IsChild(p, h): h is a child or other descendant of p
RECURSIVE IsDescendant(_, _, _)
IsDescendant(p, h, depth) ==
    IF depth = 0 \/ h = NULL_HWND \/ p = NULL_HWND THEN FALSE
    ELSE LET up == GetParent(h)
         IN  up /= NULL_HWND /\ (up = p \/ IsDescendant(p, up, depth - 1))
IsChild(p, h) == IsDescendant(p, h, 5)

\* is_class_name(hwnd, expected)
is_class_name(hwnd, expected) == ClassOf(hwnd) = expected

-----------------------------------------------------------------------------
(* Fixed-width arithmetic *)

\* v as u16
ToU16(v) == v % 65536
\* (u: u16) as i16
ToI16(u) == IF u >= 32768 THEN u - 65536 ELSE u
\* (d: i16) as i32 as u32, as the limbs <<low, high>>
SignExtend32(d) == <<ToU16(d), IF d < 0 THEN 65535 ELSE 0>>

-----------------------------------------------------------------------------
(* The relay encoding: post_mouse and its inverse in dispatch_wnd_proc *)

DispatchHwnd == Hwnd("MWP_MouseDispatch", 0, "relay")

\* the same packing in a 32-bit word: the aux data is shifted out of it
PackWParam32(kind, vk, data) == <<ToU16(kind), ToU16(vk), 0, 0>>
\* WPARAM((kind as u16 as usize) | ((vk as u16 as usize) << 16) | ((data as usize) << 32))
PackWParam(kind, vk, data) == <<ToU16(kind), ToU16(vk), data[1], data[2]>>
\* LPARAM(((x as i16 as u16 as u32) | ((y as i16 as u16 as u32) << 16)) as isize)
PackLParam(x, y) == <<ToU16(x), ToU16(y), 0, 0>>

\* a message queue that puts a posted message ahead of those waiting
PostMessageW_front(queue, msgs) == msgs \o queue
\* PostMessageW: the posted messages go to the end of the window's queue
PostMessageW(queue, msgs) == queue \o msgs

\* a post_mouse that posts whether or not the dispatch window exists
post_mouse_unguarded(kind, vk, data, x, y) ==
    <<[msg |-> WM_MWP_MOUSE, wp |-> PackWParam(kind, vk, data), lp |-> PackLParam(x, y)]>>
\* post_mouse: the messages it posts to the dispatch window (none or one)
post_mouse(kind, vk, data, x, y) ==
    IF DISPATCH_HWND = NULL_HWND THEN <<>>
    ELSE <<[msg |-> WM_MWP_MOUSE, wp |-> PackWParam(kind, vk, data),
            lp |-> PackLParam(x, y)]>>

-----------------------------------------------------------------------------
(* The low-level mouse hook *)

\* cached once at hook start-up
OUR_PID == Pid.our
DBLCLICK_TIME == DoubleClickTime
DBLCLICK_CX == CxDoubleClk \div 2
DBLCLICK_CY == CyDoubleClk \div 2

\* ScreenToClient(h, pt)
ClientOrigin(h) == IF h = OurHwnd THEN wvOrigin ELSE <<0, 0>>
ScreenToClient(h, pt) == <<pt[1] - ClientOrigin(h)[1], pt[2] - ClientOrigin(h)[2]>>

IsWindowVisible(h) == IsWindow(h) /\ slvVisible

\* is_over_desktop, fast path: the cached handles and the shell root's children
KnownDesktopHwnd(hwnd_under) ==
    \/ CHROME_RWHH /= NULL_HWND /\ hwnd_under = CHROME_RWHH
    \/ DESKTOP_CORE_HWND /= NULL_HWND /\ hwnd_under = DESKTOP_CORE_HWND
    \/ hwnd_under = TARGET_PARENT_HWND
    \/ hwnd_under = WEBVIEW_HWND
    \/ hwnd_under = PROGMAN_HWND
    \/ PROGMAN_HWND /= NULL_HWND /\ IsChild(PROGMAN_HWND, hwnd_under)

\* is_over_desktop, slow path 1: explorer's CoreWindow
IsShellCoreWindow(hwnd_under) ==
    /\ is_class_name(hwnd_under, "Windows.UI.Core.CoreWindow")
    /\ EXPLORER_PID /= 0
    /\ WindowPid(hwnd_under) = EXPLORER_PID

\* a discovery that looks at the class name only
IsAnyRwhh(hwnd_under) ==
    /\ CHROME_RWHH = NULL_HWND
    /\ WEBVIEW_HWND /= NULL_HWND
    /\ is_class_name(hwnd_under, "Chrome_RenderWidgetHostHWND")

\* is_over_desktop, slow path 2: a renderer input window of this application
IsOwnRwhh(hwnd_under) ==
    /\ CHROME_RWHH = NULL_HWND
    /\ WEBVIEW_HWND /= NULL_HWND
    /\ is_class_name(hwnd_under, "Chrome_RenderWidgetHostHWND")
    /\ LET direct_parent == GetParent(hwnd_under)
           browser_pid == WindowPid(direct_parent)
       IN  /\ direct_parent /= NULL_HWND
           /\ \/ browser_pid = OUR_PID
              \/ \E ppid \in ProcessParent(browser_pid) : ppid = OUR_PID

is_over_desktop(hwnd_under) ==
    \/ KnownDesktopHwnd(hwnd_under)
    \/ IsShellCoreWindow(hwnd_under)
    \/ IsOwnRwhh(hwnd_under)

\* the handles is_over_desktop caches on the way
DesktopCoreAfter(hwnd_under) ==
    IF ~KnownDesktopHwnd(hwnd_under) /\ IsShellCoreWindow(hwnd_under)
    THEN hwnd_under ELSE DESKTOP_CORE_HWND
ChromeRwhhAfter(hwnd_under) ==
    IF /\ ~KnownDesktopHwnd(hwnd_under)
       /\ ~IsShellCoreWindow(hwnd_under)
       /\ IsOwnRwhh(hwnd_under)
    THEN hwnd_under ELSE CHROME_RWHH

\* a forward that drops the drag button when the wheel turns
forward_drag_vk_wheel_clears(msg) ==
    IF msg = MOUSE_LDOWN THEN MK_LBUTTON
    ELSE IF msg = MOUSE_RDOWN THEN MK_RBUTTON
    ELSE IF msg = MOUSE_MDOWN THEN MK_MBUTTON
    ELSE IF msg \in {MOUSE_LUP, MOUSE_RUP, MOUSE_MUP, MOUSE_WHEEL, MOUSE_HWHEEL} THEN 0
    ELSE DRAG_VK

\* forward: the value it leaves in DRAG_VK
forward_drag_vk(msg) ==
    IF msg = MOUSE_LDOWN THEN MK_LBUTTON
    ELSE IF msg = MOUSE_RDOWN THEN MK_RBUTTON
    ELSE IF msg = MOUSE_MDOWN THEN MK_MBUTTON
    ELSE IF msg \in {MOUSE_LUP, MOUSE_RUP, MOUSE_MUP} THEN 0
    ELSE DRAG_VK

\* forward: what it posts to the relay
forward(msg, mouseData, cx, cy) ==
    IF msg = MOUSE_MOVE THEN post_mouse(MOUSE_MOVE, DRAG_VK, <<0, 0>>, cx, cy)
    ELSE IF msg = MOUSE_LDOWN THEN post_mouse(MOUSE_LDOWN, MK_LBUTTON, <<0, 0>>, cx, cy)
    ELSE IF msg = MOUSE_LUP THEN post_mouse(MOUSE_LUP, MK_NONE, <<0, 0>>, cx, cy)
    ELSE IF msg = MOUSE_RDOWN THEN post_mouse(MOUSE_RDOWN, MK_RBUTTON, <<0, 0>>, cx, cy)
    ELSE IF msg = MOUSE_RUP THEN post_mouse(MOUSE_RUP, MK_NONE, <<0, 0>>, cx, cy)
    ELSE IF msg = MOUSE_MDOWN THEN post_mouse(MOUSE_MDOWN, MK_MBUTTON, <<0, 0>>, cx, cy)
    ELSE IF msg = MOUSE_MUP THEN post_mouse(MOUSE_MUP, MK_NONE, <<0, 0>>, cx, cy)
    ELSE IF msg \in {MOUSE_WHEEL, MOUSE_HWHEEL}
    THEN post_mouse(msg, MK_NONE, SignExtend32(ToI16(mouseData[2])), cx, cy)
    ELSE <<>>

\* hook_proc passes the event on before looking at it
hook_bypass(code) == code < 0 \/ WEBVIEW_HWND = NULL_HWND
\* a hook that never looks at the session flag
session_never_paused == FALSE
\* hook_proc pauses forwarding while the session is locked
session_paused == ~IS_SESSION_ACTIVE

\* a hook that forwards whatever window is under the cursor
hook_forwards_everywhere(code, hwnd_under) == ~hook_bypass(code) /\ ~session_paused

\* hook_proc reaches forward()
hook_forwards(code, hwnd_under) ==
    /\ ~hook_bypass(code)
    /\ ~session_paused
    /\ is_over_desktop(hwnd_under)

\* a hook that posts to the icon list whether it is visible or not
hook_posts_icons_hidden_too(code, hwnd_under) ==
    /\ hook_forwards(code, hwnd_under)
    /\ SYSLISTVIEW_HWND /= NULL_HWND

\* hook_proc also posts the event to SysListView32
hook_posts_icons(code, hwnd_under) ==
    /\ hook_forwards(code, hwnd_under)
    /\ SYSLISTVIEW_HWND /= NULL_HWND
    /\ IsWindowVisible(SYSLISTVIEW_HWND)

\* now.saturating_sub(last)
SaturatingSub(a, b) == IF a >= b THEN a - b ELSE 0
Abs(v) == IF v < 0 THEN -v ELSE v

\* a double-click test that excludes the last tick of the double-click time
is_double_click_short(time, pt) ==
    LET dt == SaturatingSub(time, LAST_DOWN_TIME)
        dx == Abs(pt[1] - LAST_DOWN_X)
        dy == Abs(pt[2] - LAST_DOWN_Y)
    IN  dt > 0 /\ dt < DBLCLICK_TIME /\ dx <= DBLCLICK_CX /\ dy <= DBLCLICK_CY

\* the double-click test of a left press against the recorded one
is_double_click(time, pt) ==
    LET dt == SaturatingSub(time, LAST_DOWN_TIME)
        dx == Abs(pt[1] - LAST_DOWN_X)
        dy == Abs(pt[2] - LAST_DOWN_Y)
    IN  dt > 0 /\ dt <= DBLCLICK_TIME /\ dx <= DBLCLICK_CX /\ dy <= DBLCLICK_CY

\* the message posted to SysListView32 in place of msg
icon_out_msg(msg, time, pt) ==
    IF msg = MOUSE_LDOWN /\ is_double_click(time, pt) THEN WM_LBUTTONDBLCLK ELSE msg

\* the MK_* flags and wheel delta posted to SysListView32, as <<low, high>> limbs
icon_wparam(out_msg, mouseData, mods) ==
    LET mk == (IF out_msg \in {MOUSE_LDOWN, WM_LBUTTONDBLCLK} \/ "L" \in held
               THEN MK_LBUTTON ELSE 0)
            + (IF out_msg = MOUSE_RDOWN \/ "R" \in held THEN MK_RBUTTON ELSE 0)
            + (IF out_msg = MOUSE_MDOWN \/ "M" \in held THEN MK_MBUTTON ELSE 0)
            + (IF "shift" \in mods THEN MK_SHIFT ELSE 0)
            + (IF "ctrl" \in mods THEN MK_CONTROL ELSE 0)
    IN  IF out_msg \in {MOUSE_WHEEL, MOUSE_HWHEEL} THEN <<mk, mouseData[2]>>
        ELSE <<mk, 0>>

\* the coordinates posted to SysListView32
icon_lparam(msg, pt) ==
    IF msg \in {MOUSE_WHEEL, MOUSE_HWHEEL} THEN PackLParam(pt[1], pt[2])
    ELSE LET slv_cp == ScreenToClient(SYSLISTVIEW_HWND, pt)
         IN  PackLParam(slv_cp[1], slv_cp[2])

NoPress == [msg |-> 0, time |-> 0, x |-> 0, y |-> 0]
NoGesture == [btn |-> "none", dests |-> {}]
NoHook == [event |-> [code |-> 0, wparam |-> 0, info |-> <<>>], hwnd |-> NULL_HWND,
           session |-> TRUE, relay |-> <<>>, icons |-> <<>>,
           next |-> [code |-> 0, wparam |-> 0, info |-> <<>>],
           seq |-> NoGesture, prev |-> NoPress, drag |-> 0]

\* what the next hook is handed by a hook that has consumed the event: nothing
Consumed == [code |-> 0, wparam |-> 0, info |-> <<"consumed">>]
\* a hook that consumes the events it forwards
hook_consumes_forwarded(event, forwarded) == IF forwarded THEN Consumed ELSE event
\* hook_proc returns CallNextHookEx(hook_h, code, wparam, lparam) on every path
hook_passes_on(event, forwarded) == event

\* hook_proc(code, wparam, lparam) with WindowFromPoint(pt) = hwnd_under
HookProc(code, msg, hwnd_under, pt, time, mouseData, mods) ==
    LET fwd == hook_forwards(code, hwnd_under)
        ico == hook_posts_icons(code, hwnd_under)
        cp == ScreenToClient(WEBVIEW_HWND, pt)
        relay == IF fwd THEN forward(msg, mouseData, cp[1], cp[2]) ELSE <<>>
        out_msg == icon_out_msg(msg, time, pt)
        icons == IF ico
                 THEN <<[msg |-> out_msg, wp |-> icon_wparam(out_msg, mouseData, mods),
                         lp |-> icon_lparam(msg, pt)]>>
                 ELSE <<>>
        dests == (IF relay /= <<>> THEN {"content"} ELSE {})
                 \cup (IF icons /= <<>> THEN {"icons"} ELSE {})
        btn == ButtonOf(msg)
        starts == msg \in PressMsgs /\ gesture.btn = "none" /\ dests /= {}
        ends == msg \in ReleaseMsgs /\ gesture.btn = btn
        within == gesture.btn /= "none" /\ (msg = MOUSE_MOVE \/ ends)
        event == [code |-> code, wparam |-> msg, info |-> <<pt, mouseData, time>>]
    IN  /\ DRAG_VK' = IF fwd THEN forward_drag_vk(msg) ELSE DRAG_VK
        /\ DESKTOP_CORE_HWND' = IF ~hook_bypass(code) /\ ~session_paused
                                THEN DesktopCoreAfter(hwnd_under)
                                ELSE DESKTOP_CORE_HWND
        /\ CHROME_RWHH' = IF ~hook_bypass(code) /\ ~session_paused
                          THEN ChromeRwhhAfter(hwnd_under)
                          ELSE CHROME_RWHH
        /\ IF ico /\ msg = MOUSE_LDOWN
           THEN IF is_double_click(time, pt)
                THEN LAST_DOWN_TIME' = 0 /\ UNCHANGED <<LAST_DOWN_X, LAST_DOWN_Y>>
                ELSE /\ LAST_DOWN_TIME' = time
                     /\ LAST_DOWN_X' = pt[1]
                     /\ LAST_DOWN_Y' = pt[2]
           ELSE UNCHANGED lastDown
        /\ dispatchQueue' = PostMessageW(dispatchQueue, relay)
        /\ relayTrace' = IF relayTrace.on
                         THEN [relayTrace EXCEPT
                                  !.seen = IF relay /= <<>> THEN Append(@, event) ELSE @,
                                  !.posted = @ \o relay]
                         ELSE relayTrace
        /\ lastHook' = [event |-> event, hwnd |-> hwnd_under,
                        session |-> IS_SESSION_ACTIVE,
                        relay |-> relay, icons |-> icons,
                        next |-> hook_passes_on(event, fwd),
                        seq |-> IF starts THEN [btn |-> btn, dests |-> dests]
                                ELSE IF within THEN gesture ELSE NoGesture,
                        prev |-> IF msg \in PressMsgs THEN prevPress[btn] ELSE NoPress,
                        drag |-> DRAG_VK]
        /\ gesture' = IF starts THEN [btn |-> btn, dests |-> dests]
                      ELSE IF ends THEN NoGesture ELSE gesture
        /\ prevPress' = IF msg \in PressMsgs /\ icons /= <<>>
                        THEN [prevPress EXCEPT ![btn] =
                                 [msg |-> out_msg, time |-> time, x |-> pt[1], y |-> pt[2]]]
                        ELSE prevPress
        /\ forwardedDown' = IF msg \in PressMsgs /\ relay /= <<>>
                            THEN forwardedDown \cup {btn}
                            ELSE IF msg \in ReleaseMsgs THEN forwardedDown \ {btn}
                            ELSE forwardedDown
        /\ UNCHANGED <<WEBVIEW_HWND, SYSLISTVIEW_HWND, TARGET_PARENT_HWND, PROGMAN_HWND,
                       EXPLORER_PID, COMP_CONTROLLER_PTR, DISPATCH_HWND>>

-----------------------------------------------------------------------------
(* The dispatch window: dispatch_wnd_proc *)

\* (w: usize) as i32, from the two low limbs
ToI32(lo, hi) == IF hi >= 32768 THEN (hi - 65536) * 65536 + lo ELSE hi * 65536 + lo

RendererCall(fn, kind, vk, data, x, y) ==
    [fn |-> fn, kind |-> kind, vk |-> vk, data |-> data, x |-> x, y |-> y]

\* a relay that hands every event to the renderer as it is, presses included
dispatch_calls_unsynced(m) ==
    IF m.msg = WM_MWP_MOUSE /\ COMP_CONTROLLER_PTR /= 0
    THEN <<RendererCall("send_mouse_input_raw", m.wp[1], m.wp[2], <<m.wp[3], m.wp[4]>>,
                        ToI16(m.lp[1]), ToI16(m.lp[2]))>>
    ELSE <<>>

\* the renderer calls dispatch_wnd_proc makes for one message
dispatch_calls(m) ==
    IF m.msg = WM_MWP_SETBOUNDS_PUB
    THEN IF COMP_CONTROLLER_PTR /= 0
         THEN <<RendererCall("set_controller_bounds_raw", 0, 0, <<0, 0>>,
                             ToI32(m.wp[1], m.wp[2]), ToI32(m.lp[1], m.lp[2]))>>
         ELSE <<>>
    ELSE IF m.msg = WM_MWP_MOUSE
    THEN IF COMP_CONTROLLER_PTR /= 0
         THEN LET kind == m.wp[1]
                  vk == m.wp[2]
                  data == <<m.wp[3], m.wp[4]>>
                  x == ToI16(m.lp[1])
                  y == ToI16(m.lp[2])
                  sync == IF kind \in {MOUSE_LDOWN, MOUSE_RDOWN, MOUSE_MDOWN}
                          THEN <<RendererCall("send_mouse_input_raw", MOUSE_MOVE, vk,
                                              <<0, 0>>, x, y)>>
                          ELSE <<>>
              IN  sync \o <<RendererCall("send_mouse_input_raw", kind, vk, data, x, y)>>
         ELSE <<>>
    ELSE <<>>

\* a relay that takes every session change but the unlock for a lock
dispatch_session_any_code(m) ==
    IF m.msg = WM_WTSSESSION_CHANGE
    THEN ToI32(m.wp[1], m.wp[2]) = WTS_SESSION_UNLOCK
    ELSE IS_SESSION_ACTIVE

\* the value dispatch_wnd_proc leaves in IS_SESSION_ACTIVE
dispatch_session(m) ==
    IF m.msg = WM_WTSSESSION_CHANGE
    THEN IF ToI32(m.wp[1], m.wp[2]) = WTS_SESSION_LOCK THEN FALSE
         ELSE IF ToI32(m.wp[1], m.wp[2]) = WTS_SESSION_UNLOCK THEN TRUE
         ELSE IS_SESSION_ACTIVE
    ELSE IS_SESSION_ACTIVE

NoDispatch == [msg |-> 0, wp |-> <<0, 0, 0, 0>>, lp |-> <<0, 0, 0, 0>>, ptr |-> 0,
               calls |-> <<>>, session |-> TRUE]
\* the observer of the relay, not recording
NoTrace == [on |-> FALSE, seen |-> <<>>, posted |-> <<>>, handed |-> <<>>]

\* the message loop hands the oldest queued message to dispatch_wnd_proc
DispatchWndProc ==
    /\ dispatchQueue /= <<>>
    /\ LET m == Head(dispatchQueue)
       IN  /\ lastDispatch' = [msg |-> m.msg, wp |-> m.wp, lp |-> m.lp,
                               ptr |-> COMP_CONTROLLER_PTR,
                               calls |-> dispatch_calls(m),
                               session |-> IS_SESSION_ACTIVE]
           /\ relayTrace' = IF relayTrace.on /\ m.msg = WM_MWP_MOUSE
                            THEN [relayTrace EXCEPT !.handed = Append(@, dispatch_calls(m))]
                            ELSE relayTrace
           /\ IS_SESSION_ACTIVE' = dispatch_session(m)
    /\ dispatchQueue' = Tail(dispatchQueue)
    /\ UNCHANGED <<hookStatics, lastDown, ICONS_RESTORED, HOOK_HANDLE_GLOBAL,
                   WATCHDOG_PARENT, now, held, slvVisible, wvOrigin,
                   lastHook, gesture, prevPress, forwardedDown, shellEnv, lifecycle,
                   watchObs,
                   leaveVars,
                   commandObs, workerVars>>

\* the system notifies the dispatch window of a session change
SessionNotify(code) ==
    /\ Len(dispatchQueue) < MaxQueue
    /\ dispatchQueue' = Append(dispatchQueue,
                               [msg |-> WM_WTSSESSION_CHANGE, wp |-> <<code, 0, 0, 0>>,
                                lp |-> <<0, 0, 0, 0>>])
    /\ UNCHANGED <<hookStatics, lastDown, layerStatics, now, held, slvVisible, wvOrigin,
                   hookObs, shellEnv, lifecycle, watchObs, leaveVars,
                   commandObs, workerVars>>

NoToggle == [called |-> FALSE, visible |-> TRUE, slv |-> NULL_HWND, ops |-> <<>>,
             result |-> "Ok"]

\* a toggle that calls ShowWindow whatever the cached handle is
icons_toggle_ops_unchecked(slv, visible) ==
    <<[op |-> "ShowWindow", hwnd |-> slv, cmd |-> IF visible THEN "SW_SHOW" ELSE "SW_HIDE"]>>
\* the window operations of set_desktop_icons_visible for the cached handle slv
icons_toggle_ops(slv, visible) ==
    IF slv /= NULL_HWND
    THEN <<[op |-> "ShowWindow", hwnd |-> slv,
            cmd |-> IF visible THEN "SW_SHOW" ELSE "SW_HIDE"]>>
    ELSE <<>>

\* set_desktop_icons_visible(visible)
set_desktop_icons_visible(visible) ==
    /\ LET ops == icons_toggle_ops(SYSLISTVIEW_HWND, visible)
       IN  /\ slvVisible' = IF ops /= <<>> /\ IsWindow(ops[1].hwnd)
                            THEN visible ELSE slvVisible
           /\ lastToggle' = [called |-> TRUE, visible |-> visible,
                             slv |-> SYSLISTVIEW_HWND, ops |-> ops, result |-> "Ok"]
    /\ UNCHANGED <<hookStatics, lastDown, layerStatics, now, held, wvOrigin,
                   dispatchQueue, hookObs, shellEnv, lifecycle, lastDetect, lastWatchdog,
                   lastInject, leaveVars,
                   commandObs, workerVars>>

-----------------------------------------------------------------------------
(* The pointer as the operating system reports it to the hook *)

\* a press needs the button up, a release needs it down
Physical(msg) ==
    /\ msg \in PressMsgs => ButtonOf(msg) \notin held
    /\ msg \in ReleaseMsgs => ButtonOf(msg) \in held

HeldAfter(msg) ==
    IF msg \in PressMsgs THEN held \cup {ButtonOf(msg)}
    ELSE IF msg \in ReleaseMsgs THEN held \ {ButtonOf(msg)}
    ELSE held

\* the hook thread receives one pointer event
PointerEvent(code, msg, hwnd_under, pt, mouseData, mods) ==
    /\ hooksInstalled /= {}
    /\ Physical(msg)
    /\ HookProc(code, msg, hwnd_under, pt, now, mouseData, mods)
    /\ held' = HeldAfter(msg)
    /\ UNCHANGED <<layerStatics, now, slvVisible, wvOrigin, lastDispatch, shellEnv,
                   lifecycle, watchObs, leaveVars,
                   commandObs, workerVars>>

Tick ==
    /\ now < MaxTime
    /\ now' = now + 1
    /\ UNCHANGED <<hookStatics, lastDown, layerStatics, held, slvVisible, wvOrigin,
                   dispatchQueue, hookObs, shellEnv, lifecycle, watchObs, leaveVars,
                   commandObs, workerVars>>

-----------------------------------------------------------------------------
(* Desktop detection: detect_desktop                                       *)

\* the windows a shell generation can have
ShellWindows(g) ==
    {Progman(g), WallpaperWorkerW(g), IconHostWorkerW(g), DefView(g), ListView(g)}

\* the shell handles the spawn message 0x052C: the wallpaper WorkerW exists
\* afterwards if it existed before or this was the last signal the shell needed
WorkerAfterSpawn == workerUp \/ spawnLeft = 1
SpawnLeftAfter == IF spawnLeft > 0 THEN spawnLeft - 1 ELSE 0

\* IsWindow(h) once the spawn message has been handled
ExistsAfterSpawn(h, wUp) ==
    IF h = WallpaperWorkerW(shellGen) THEN progmanUp /\ wUp ELSE IsWindow(h)

\* FindWindowExW(parent, child_after, class): a window of the class under
\* parent (top level for NULL_HWND) other than child_after, NULL_HWND for none
FindWindowExW(parent, child_after, class, wUp) ==
    LET found == {h \in ShellWindows(shellGen) :
                     /\ ExistsAfterSpawn(h, wUp)
                     /\ ClassOf(h) = class
                     /\ ShellParent(h) = parent
                     /\ h /= child_after}
    IN  IF found = {} THEN NULL_HWND ELSE CHOOSE h \in found : TRUE

\* a search that takes the window hosting the icon view as the container
enum_cb_takes_host(wUp) ==
    LET hosts == {h \in ShellWindows(shellGen) :
                     /\ ExistsAfterSpawn(h, wUp)
                     /\ ShellParent(h) = NULL_HWND
                     /\ FindWindowExW(h, NULL_HWND, "SHELLDLL_DefView", wUp) /= NULL_HWND}
    IN  IF hosts = {} THEN [parent |-> NULL_HWND, sv |-> NULL_HWND]
        ELSE LET hwnd == CHOOSE h \in hosts : TRUE
             IN  [parent |-> IF ClassOf(hwnd) = "WorkerW" THEN hwnd ELSE NULL_HWND,
                  sv |-> FindWindowExW(hwnd, NULL_HWND, "SHELLDLL_DefView", wUp)]

\* EnumWindows(enum_cb): the search stops at the first top-level window with a
\* SHELLDLL_DefView child and takes the WorkerW after it
enum_cb(wUp) ==
    LET hosts == {h \in ShellWindows(shellGen) :
                     /\ ExistsAfterSpawn(h, wUp)
                     /\ ShellParent(h) = NULL_HWND
                     /\ FindWindowExW(h, NULL_HWND, "SHELLDLL_DefView", wUp) /= NULL_HWND}
    IN  IF hosts = {} THEN [parent |-> NULL_HWND, sv |-> NULL_HWND]
        ELSE LET hwnd == CHOOSE h \in hosts : TRUE
             IN  [parent |-> FindWindowExW(NULL_HWND, hwnd, "WorkerW", wUp),
                  sv |-> FindWindowExW(hwnd, NULL_HWND, "SHELLDLL_DefView", wUp)]

\* EnumChildWindows(shell_for_slv, find_slv)
find_slv(shell_for_slv, wUp) ==
    IF shell_for_slv = NULL_HWND THEN NULL_HWND
    ELSE FindWindowExW(shell_for_slv, NULL_HWND, "SysListView32", wUp)

DetectionFailed ==
    [ok |-> FALSE, progman |-> NULL_HWND, explorer_pid |-> 0, target_parent |-> NULL_HWND,
     syslistview |-> NULL_HWND, v_width |-> 0, v_height |-> 0]

\* a detection that keeps what the search returned, found or not
container_as_found(parent, progman) == parent
\* the container: the WorkerW the search found, the shell root if it found none
container_or_root(parent, progman) == IF parent = NULL_HWND THEN progman ELSE parent

\* detect_desktop(), searching the windows that exist after its one spawn
\* message and its 150 ms sleep
detect_desktop(wUp) ==
    IF ~progmanUp THEN DetectionFailed
    ELSE LET progman == Progman(shellGen)
             shell_view == FindWindowExW(progman, NULL_HWND, "SHELLDLL_DefView", wUp)
             search == IF shell_view /= NULL_HWND
                       THEN [parent |-> FindWindowExW(progman, NULL_HWND, "WorkerW", wUp),
                             sv |-> shell_view]
                       ELSE enum_cb(wUp)
             target_parent == container_or_root(search.parent, progman)
         IN  [ok |-> TRUE, progman |-> progman, explorer_pid |-> WindowPid(progman),
              target_parent |-> target_parent,
              syslistview |-> find_slv(search.sv, wUp),
              v_width |-> virtualScreen[1], v_height |-> virtualScreen[2]]

\* the undocumented Progman message that makes the shell create its WorkerW
PROGMAN_SPAWN_WORKERW == 1324
SpawnMessage(wparam, lparam) ==
    [msg |-> PROGMAN_SPAWN_WORKERW, wp |-> wparam, lp |-> lparam]
\* the messages detect_desktop sends to the shell root before it searches
spawn_messages == <<SpawnMessage(13, 1)>>

NoDetect == [by |-> "none", root |-> FALSE, topo |-> "direct", needed |-> 0,
             had |-> FALSE, signals |-> 0, sent |-> <<>>, result |-> DetectionFailed]

\* what detect_desktop returns when called in this state
DetectResult == detect_desktop(IF progmanUp THEN WorkerAfterSpawn ELSE workerUp)

\* one call of detect_desktop by `by`, returning d: what it does to the shell
DetectDesktop(by, d) ==
    /\ workerUp' = IF progmanUp THEN WorkerAfterSpawn ELSE workerUp
    /\ spawnLeft' = IF progmanUp THEN SpawnLeftAfter ELSE spawnLeft
    /\ lastDetect' = [by |-> by, root |-> progmanUp, topo |-> topology,
                      needed |-> spawnLeft, had |-> workerUp,
                      signals |-> IF progmanUp THEN Len(spawn_messages) ELSE 0,
                      sent |-> IF progmanUp THEN spawn_messages ELSE <<>>,
                      result |-> d]

-----------------------------------------------------------------------------
(* Injection: apply_injection                                              *)

FrameStyles == {"WS_THICKFRAME", "WS_CAPTION", "WS_SYSMENU", "WS_MAXIMIZEBOX",
                "WS_MINIMIZEBOX", "WS_POPUP", "WS_BORDER", "WS_DLGFRAME"}
FrameExStyles == {"WS_EX_LAYERED", "WS_EX_NOACTIVATE", "WS_EX_CLIENTEDGE",
                  "WS_EX_WINDOWEDGE", "WS_EX_DLGMODALFRAME", "WS_EX_STATICEDGE"}

\* the content surface as the window toolkit creates it
PlainWindow ==
    [style |-> {"WS_CAPTION", "WS_SYSMENU", "WS_THICKFRAME", "WS_MINIMIZEBOX",
                "WS_MAXIMIZEBOX", "WS_VISIBLE"},
     ex_style |-> {"WS_EX_WINDOWEDGE"}, subclass |-> FALSE, border |-> "default",
     brush |-> "default", pos |-> <<100, 100>>, size |-> <<800, 600>>]

\* an injection that re-parents and restyles the window where it stands
injected_window_in_place(win, v_width, v_height) ==
    [style |-> (win.style \ FrameStyles) \cup {"WS_CHILD", "WS_VISIBLE"},
     ex_style |-> win.ex_style \ FrameExStyles,
     subclass |-> TRUE, border |-> "none", brush |-> "black",
     pos |-> win.pos, size |-> win.size]

\* steps 1 to 6 of apply_injection on the window win
injected_window(win, v_width, v_height) ==
    [style |-> (win.style \ FrameStyles) \cup {"WS_CHILD", "WS_VISIBLE"},
     ex_style |-> win.ex_style \ FrameExStyles,
     subclass |-> TRUE, border |-> "none", brush |-> "black",
     pos |-> <<0, 0>>, size |-> <<v_width, v_height>>]

NoInject == [d |-> DetectionFailed, skipped |-> FALSE,
             before |-> [parent |-> NULL_HWND, window |-> PlainWindow]]

\* an injection that is carried out on every call
injection_never_skipped(d) == FALSE
\* the surface is already a child of the detection's container
injection_skipped(d) == GetParent(OurHwnd) = d.target_parent

\* apply_injection(our_hwnd, detection)
apply_injection(d) ==
    /\ lastInject' = [d |-> d, skipped |-> GetParent(OurHwnd) = d.target_parent,
                      before |-> [parent |-> GetParent(OurHwnd), window |-> ourWindow]]
    /\ IF injection_skipped(d)
       THEN UNCHANGED <<ourParent, ourWindow>>
       ELSE /\ ourParent' = d.target_parent
            /\ ourWindow' = injected_window(ourWindow, d.v_width, d.v_height)

-----------------------------------------------------------------------------
(* Setup, the hook thread and the watchdog: ensure_in_worker_w              *)

\* the handle SetWindowsHookExW returns
HookHandle == 1

\* attempts of the poll for the renderer's composition controller: `1..=100`
POLL_ATTEMPTS == 100
\* the poll thread before ensure_in_worker_w has spawned it
NoPoll == [pc |-> "none", tries |-> 0, got |-> 0, w |-> 0, h |-> 0, posted |-> <<>>]

\* a setup that goes on whatever detection returned
setup_goes_on_anyway(d) == TRUE
\* `detect_desktop()?`: setup goes on only with a detection result
setup_goes_on(d) == d.ok

\* ensure_in_worker_w(window), up to the threads it starts
EnsureInWorkerW ==
    /\ setupPc = "none"
    /\ \E d \in {DetectResult} :
          /\ DetectDesktop("setup", d)
          /\ IF setup_goes_on(d)
             THEN /\ WEBVIEW_HWND' = OurHwnd
                  /\ TARGET_PARENT_HWND' = d.target_parent
                  /\ PROGMAN_HWND' = d.progman
                  /\ EXPLORER_PID' = d.explorer_pid
                  /\ SYSLISTVIEW_HWND' = IF d.syslistview /= NULL_HWND
                                         THEN d.syslistview ELSE SYSLISTVIEW_HWND
                  /\ apply_injection(d)
                  /\ DISPATCH_HWND' = DispatchHwnd
                  /\ pollThread' = [pc |-> "poll", tries |-> 0, got |-> 0,
                                    w |-> d.v_width, h |-> d.v_height, posted |-> <<>>]
                  /\ hookPc' = "start"
                  /\ WATCHDOG_PARENT' = d.target_parent
                  /\ setupPc' = "done"
             ELSE /\ setupPc' = "failed"
                  /\ UNCHANGED <<WEBVIEW_HWND, TARGET_PARENT_HWND, PROGMAN_HWND,
                                 EXPLORER_PID, SYSLISTVIEW_HWND, ourParent, ourWindow,
                                 DISPATCH_HWND, hookPc, WATCHDOG_PARENT, lastInject,
                                 pollThread>>
    /\ UNCHANGED <<DESKTOP_CORE_HWND, COMP_CONTROLLER_PTR, DRAG_VK, CHROME_RWHH, lastDown,
                   ICONS_RESTORED, HOOK_HANDLE_GLOBAL, IS_SESSION_ACTIVE, hookEnv, hookObs,
                   shellGen, progmanUp, topology, virtualScreen, hooksInstalled, tdPc,
                   tdReturned, tdLog, lastWatchdog, lastToggle, leaveVars,
                   commandObs, MONITOR_RUNNING, monitorThreads>>

\* (v: i32) as usize, in 16-bit limbs
UsizeOfI32(v) ==
    IF v < 0
    THEN LET u == v + 2147483647 + 1
         IN  <<u % 65536, u \div 65536 + 32768, 65535, 65535>>
    ELSE <<v % 65536, v \div 65536, 0, 0>>

\* a poll thread that posts whether or not the relay window exists
post_setbounds_unguarded(w, h) ==
    <<[msg |-> WM_MWP_SETBOUNDS_PUB, wp |-> UsizeOfI32(w), lp |-> UsizeOfI32(h)]>>
\* the set-bounds message the poll thread posts once it has the controller
post_setbounds(w, h) ==
    IF DISPATCH_HWND = NULL_HWND THEN <<>>
    ELSE <<[msg |-> WM_MWP_SETBOUNDS_PUB, wp |-> UsizeOfI32(w), lp |-> UsizeOfI32(h)]>>

\* `for _ in 1..=100`: the attempt just made was the last one
poll_over(tries) == tries >= POLL_ATTEMPTS

\* one attempt of the poll thread: ptr is what
\* wry::get_last_composition_controller_ptr() returns to it
PollAttempt(ptr) ==
    /\ pollThread.pc = "poll"
    /\ IF ptr /= 0
       THEN /\ COMP_CONTROLLER_PTR' = ptr
            /\ ourWindow' = [ourWindow EXCEPT !.pos = <<0, 0>>,
                                              !.size = <<pollThread.w, pollThread.h>>]
            /\ dispatchQueue' = PostMessageW(dispatchQueue,
                                             post_setbounds(pollThread.w, pollThread.h))
            /\ pollThread' = [pollThread EXCEPT
                                 !.pc = "done", !.tries = @ + 1, !.got = ptr,
                                 !.posted = @ \o post_setbounds(pollThread.w, pollThread.h)]
       ELSE /\ pollThread' = [pollThread EXCEPT
                                 !.pc = IF poll_over(pollThread.tries + 1)
                                        THEN "done" ELSE "poll",
                                 !.tries = @ + 1]
            /\ UNCHANGED <<COMP_CONTROLLER_PTR, ourWindow, dispatchQueue>>
    /\ UNCHANGED <<WEBVIEW_HWND, SYSLISTVIEW_HWND, TARGET_PARENT_HWND, PROGMAN_HWND,
                   EXPLORER_PID, DESKTOP_CORE_HWND, DRAG_VK, DISPATCH_HWND, CHROME_RWHH,
                   lastDown, layerStatics, now, held, slvVisible, wvOrigin, hookObs,
                   shellGen, progmanUp, workerUp, topology, ourParent, virtualScreen,
                   spawnLeft, lifecycle, watchObs, leaveVars, commandObs,
                   MONITOR_RUNNING, monitorThreads>>

\* the hook thread calls SetWindowsHookExW, which installs the hook or fails
HookInstall ==
    /\ hookPc = "start"
    /\ \/ /\ hooksInstalled' = hooksInstalled \cup {HookHandle}
          /\ hookPc' = "installed"
       \/ /\ hookPc' = "failed"
          /\ UNCHANGED hooksInstalled
    /\ UNCHANGED <<hookStatics, lastDown, layerStatics, hookEnv, hookObs, shellEnv, setupPc,
                   tdPc, tdReturned, tdLog, watchObs, leaveVars,
                   commandObs, workerVars>>

\* the hook thread stores the handle and enters its message loop
HookStore ==
    /\ hookPc = "installed"
    /\ HOOK_HANDLE_GLOBAL' = HookHandle
    /\ hookPc' = "run"
    /\ UNCHANGED <<hookStatics, lastDown, ICONS_RESTORED, IS_SESSION_ACTIVE, WATCHDOG_PARENT,
                   hookEnv, hookObs, shellEnv, setupPc, hooksInstalled, tdPc, tdReturned,
                   tdLog, watchObs, leaveVars,
                   commandObs, workerVars>>

\* the watchdog sleeps this many seconds before every look at the handle
WATCHDOG_SLEEP_SECS == 30

NoWatchdog == [seq |-> 0, slept |-> 0, stale |-> FALSE, root |-> FALSE,
               redetected |-> FALSE]

\* a watchdog that goes on watching the handle it had
watchdog_parent_kept(d) == WATCHDOG_PARENT
\* the handle the watchdog watches after a successful re-detection
watchdog_parent_after(d) == d.target_parent
\* a watchdog that gives up the handle when a re-detection fails
watchdog_parent_dropped == NULL_HWND
\* the handle the watchdog watches after a failed re-detection
watchdog_parent_on_error == WATCHDOG_PARENT

\* one cycle of the watchdog loop, after its 30 s sleep
WatchdogCycle ==
    /\ setupPc = "done"
    /\ IF WATCHDOG_PARENT = NULL_HWND \/ IsWindow(WATCHDOG_PARENT)
       THEN /\ lastWatchdog' = [seq |-> 1 - lastWatchdog.seq,
                                slept |-> WATCHDOG_SLEEP_SECS, stale |-> FALSE,
                                root |-> progmanUp, redetected |-> FALSE]
            /\ UNCHANGED <<TARGET_PARENT_HWND, PROGMAN_HWND, EXPLORER_PID, SYSLISTVIEW_HWND,
                           ourParent, ourWindow, WATCHDOG_PARENT, workerUp, spawnLeft,
                           lastDetect, lastInject>>
       ELSE \E d \in {DetectResult} :
               /\ DetectDesktop("watchdog", d)
               /\ lastWatchdog' = [seq |-> 1 - lastWatchdog.seq,
                                   slept |-> WATCHDOG_SLEEP_SECS, stale |-> TRUE,
                                   root |-> progmanUp, redetected |-> d.ok]
               /\ IF d.ok
                  THEN /\ TARGET_PARENT_HWND' = d.target_parent
                       /\ PROGMAN_HWND' = d.progman
                       /\ EXPLORER_PID' = d.explorer_pid
                       /\ SYSLISTVIEW_HWND' = IF d.syslistview /= NULL_HWND
                                              THEN d.syslistview ELSE SYSLISTVIEW_HWND
                       /\ apply_injection(d)
                       /\ WATCHDOG_PARENT' = watchdog_parent_after(d)
                  ELSE /\ WATCHDOG_PARENT' = watchdog_parent_on_error
                       /\ UNCHANGED <<TARGET_PARENT_HWND, PROGMAN_HWND, EXPLORER_PID,
                                      SYSLISTVIEW_HWND, ourParent, ourWindow, lastInject>>
    /\ UNCHANGED <<WEBVIEW_HWND, DESKTOP_CORE_HWND, COMP_CONTROLLER_PTR, DRAG_VK,
                   DISPATCH_HWND, CHROME_RWHH, lastDown, ICONS_RESTORED, HOOK_HANDLE_GLOBAL,
                   IS_SESSION_ACTIVE, hookEnv, hookObs, shellGen, progmanUp, topology,
                   virtualScreen, lifecycle, lastToggle, leaveVars,
                   commandObs, workerVars>>

-----------------------------------------------------------------------------
(* The desktop shell: explorer exits and restarts, the WorkerW is destroyed *)

\* explorer exits and takes its windows with it
ShellExit ==
    /\ progmanUp
    /\ shellGen < MaxShellGen
    /\ progmanUp' = FALSE
    /\ workerUp' = FALSE
    /\ spawnLeft' = 0
    /\ UNCHANGED <<hookStatics, lastDown, layerStatics, hookEnv, hookObs, shellGen, topology,
                   ourParent, virtualScreen, ourWindow, lifecycle, watchObs, leaveVars,
                   commandObs, workerVars>>

\* explorer starts again with new windows; it has its WorkerW from the start
\* (need = 0) or creates it on the need-th spawn message
ShellStart(topo, need) ==
    /\ ~progmanUp
    /\ shellGen < MaxShellGen
    /\ shellGen' = shellGen + 1
    /\ progmanUp' = TRUE
    /\ topology' = topo
    /\ workerUp' = (need = 0)
    /\ spawnLeft' = need
    /\ slvVisible' = TRUE
    /\ UNCHANGED <<hookStatics, lastDown, layerStatics, now, held, wvOrigin, dispatchQueue,
                   hookObs, ourParent, virtualScreen, ourWindow, lifecycle, watchObs,
                   leaveVars,
                   commandObs, workerVars>>

\* the shell destroys its wallpaper WorkerW and keeps running
WorkerClose(need) ==
    /\ progmanUp
    /\ workerUp
    /\ need >= 1
    /\ workerUp' = FALSE
    /\ spawnLeft' = need
    /\ UNCHANGED <<hookStatics, lastDown, layerStatics, hookEnv, hookObs, shellGen,
                   progmanUp, topology, ourParent, virtualScreen, ourWindow, lifecycle,
                   watchObs, leaveVars,
                   commandObs, workerVars>>

-----------------------------------------------------------------------------
(* Teardown: restore_desktop_icons_and_unhook                              *)

\* the threads that call teardown: the tray's quit item and one more caller
Callers == {"quit", "other"}

\* a teardown that does not look at the one-shot flag
teardown_every_call_runs == TRUE
\* ICONS_RESTORED.swap(true) returned false: this call does the work
teardown_runs == ~ICONS_RESTORED

\* a caller enters restore_desktop_icons_and_unhook and swaps the flag
TeardownEnter(c) ==
    /\ tdPc[c] = "idle"
    /\ tdReturned[c] < MaxCalls
    /\ ICONS_RESTORED' = TRUE
    /\ IF teardown_runs
       THEN tdPc' = [tdPc EXCEPT ![c] = "show"] /\ UNCHANGED tdReturned
       ELSE tdReturned' = [tdReturned EXCEPT ![c] = @ + 1] /\ UNCHANGED tdPc
    /\ UNCHANGED <<hookStatics, lastDown, HOOK_HANDLE_GLOBAL, IS_SESSION_ACTIVE,
                   WATCHDOG_PARENT, hookEnv, hookObs, shellEnv, setupPc, hookPc,
                   hooksInstalled, tdLog, watchObs, leaveVars,
                   commandObs, workerVars>>

\* the call that does the work shows the icon list, if its handle is known
TeardownShow(c) ==
    /\ tdPc[c] = "show"
    /\ IF SYSLISTVIEW_HWND /= NULL_HWND
       THEN /\ slvVisible' = IF IsWindow(SYSLISTVIEW_HWND) THEN TRUE ELSE slvVisible
            /\ tdLog' = Append(tdLog, <<c, "ShowWindow">>)
       ELSE UNCHANGED <<slvVisible, tdLog>>
    /\ tdPc' = [tdPc EXCEPT ![c] = "unhook"]
    /\ UNCHANGED <<hookStatics, lastDown, layerStatics, now, held, wvOrigin, dispatchQueue,
                   hookObs, shellEnv, setupPc, hookPc, hooksInstalled, tdReturned,
                   watchObs, leaveVars,
                   commandObs, workerVars>>

\* a teardown that calls UnhookWindowsHookEx whatever handle is stored
teardown_always_unhooks == TRUE
\* teardown unhooks only a stored handle
teardown_unhooks == HOOK_HANDLE_GLOBAL /= 0

\* then it removes the hook whose handle is stored, if one is, and returns
TeardownUnhook(c) ==
    /\ tdPc[c] = "unhook"
    /\ IF teardown_unhooks
       THEN /\ hooksInstalled' = hooksInstalled \ {HOOK_HANDLE_GLOBAL}
            /\ tdLog' = Append(tdLog, <<c, "UnhookWindowsHookEx">>)
       ELSE UNCHANGED <<hooksInstalled, tdLog>>
    /\ tdPc' = [tdPc EXCEPT ![c] = "idle"]
    /\ tdReturned' = [tdReturned EXCEPT ![c] = @ + 1]
    /\ UNCHANGED <<hookStatics, lastDown, layerStatics, hookEnv, hookObs, shellEnv,
                   setupPc, hookPc, watchObs, leaveVars,
                   commandObs, workerVars>>

\* the positions in tdLog of the operation op
TeardownOps(op) == {i \in DOMAIN tdLog : tdLog[i][2] = op}

-----------------------------------------------------------------------------
(* The leave-event corrector: mouseleave_hook_proc of the hook DLL          *)

WM_MOUSELEAVE_U32 == 675
WM_NULL == 0

\* the windows of the browser process whose messages pass the hook
LeaveWindows == {OurRwhh, ForeignRwhh}
NoMsg == [hwnd |-> NULL_HWND, message |-> WM_NULL]

\* GetPropW(hwnd, name) is not null
GetPropW(hwnd, name) == name \in props[hwnd]

\* the hook looks at the message: code >= 0 and a non-null MSG pointer
mouseleave_inspects(code, has_msg, msg) ==
    /\ code >= 0 /\ has_msg
    /\ msg.message = WM_MOUSELEAVE_U32
    /\ GetPropW(msg.hwnd, "MWP_T")

\* a hook that lets every message through as it is
mouseleave_message_kept(code, has_msg, msg) == msg.message
\* msg.message when the hook returns
mouseleave_message(code, has_msg, msg) ==
    IF mouseleave_inspects(code, has_msg, msg) /\ ~GetPropW(msg.hwnd, "MWP_E")
    THEN WM_NULL
    ELSE msg.message

\* a hook that never removes a marker
mouseleave_props_kept(code, has_msg, msg) == props
\* the window properties when the hook returns
mouseleave_props(code, has_msg, msg) ==
    IF mouseleave_inspects(code, has_msg, msg) /\ GetPropW(msg.hwnd, "MWP_E")
    THEN [props EXCEPT ![msg.hwnd] = @ \ {"MWP_E"}]
    ELSE props

\* no call before this one
NoEarlier == [code |-> 0, msg |-> NoMsg, marked |-> {}, out |-> WM_NULL]
NoLeave == [seq |-> 0, code |-> 0, wparam |-> 0, has_msg |-> FALSE, msg |-> NoMsg,
            before |-> <<>>, out |-> WM_NULL, after |-> <<>>, next |-> <<>>,
            earlier |-> NoEarlier]

\* mouseleave_hook_proc(code, wparam, lparam), lparam null or pointing to msg
MouseleaveHookProc(code, wparam, has_msg, msg) ==
    /\ props' = mouseleave_props(code, has_msg, msg)
    /\ lastLeave' = [seq |-> 1 - lastLeave.seq, code |-> code, wparam |-> wparam,
                     has_msg |-> has_msg, msg |-> msg, before |-> props,
                     out |-> mouseleave_message(code, has_msg, msg),
                     after |-> mouseleave_props(code, has_msg, msg),
                     next |-> <<code, wparam, has_msg>>,
                     earlier |-> IF lastLeave.has_msg
                                 THEN [code |-> lastLeave.code, msg |-> lastLeave.msg,
                                       marked |-> lastLeave.before[lastLeave.msg.hwnd],
                                       out |-> lastLeave.out]
                                 ELSE NoEarlier]
    /\ UNCHANGED <<hookStatics, lastDown, layerStatics, hookEnv, hookObs, shellEnv,
                   lifecycle, watchObs, commandObs, workerVars>>

\* the host application marks a window: "MWP_T" on the surface it monitors,
\* "MWP_E" before a leave event it sends on purpose
HostSetProp(hwnd, name) ==
    /\ name \notin props[hwnd]
    /\ props' = [props EXCEPT ![hwnd] = @ \cup {name}]
    /\ UNCHANGED <<hookStatics, lastDown, layerStatics, hookEnv, hookObs, shellEnv,
                   lifecycle, watchObs, lastLeave, commandObs, workerVars>>

-----------------------------------------------------------------------------
(* The command layer: the validations of commands_core.rs                   *)

NoCommand == [fn |-> "none", args |-> <<>>, result |-> "none"]

\* the i-th character of a string, as a string
CharAt(s, i) == SubSeq(s, i, i)

\* the position of character c in the alphabet from position i on, 0 when it
\* is not in it
RECURSIVE IndexFrom(_, _, _)
IndexFrom(alphabet, c, i) ==
    IF i > Len(alphabet) THEN 0
    ELSE IF CharAt(alphabet, i) = c THEN i
    ELSE IndexFrom(alphabet, c, i + 1)

IndexIn(alphabet, c) == IndexFrom(alphabet, c, 1)

DecimalDigits == "0123456789"
\* char::is_ascii_digit
IsDigit(c) == IndexIn(DecimalDigits, c) > 0
\* char::to_digit(10) of a digit
DigitValue(c) == IndexIn(DecimalDigits, c) - 1

\* str::trim_start_matches(c)
RECURSIVE trim_start_matches(_, _)
trim_start_matches(s, c) ==
    IF Len(s) > 0 /\ Head(s) = c THEN trim_start_matches(Tail(s), c) ELSE s

\* the pieces of s from position `start` on, the scan standing at position i
RECURSIVE SplitFrom(_, _, _, _)
SplitFrom(s, chars, start, i) ==
    IF i > Len(s) THEN <<SubSeq(s, start, Len(s))>>
    ELSE IF IndexIn(chars, CharAt(s, i)) > 0
    THEN <<SubSeq(s, start, i - 1)>> \o SplitFrom(s, chars, i + 1, i + 1)
    ELSE SplitFrom(s, chars, start, i + 1)

\* str::split(pattern), collected: the pieces of s between the characters of the pattern
split(s, chars) == SplitFrom(s, chars, 1, 1)

\* str::starts_with(prefix)
starts_with(s, prefix) ==
    Len(s) >= Len(prefix) /\ SubSeq(s, 1, Len(prefix)) = prefix

\* u32::checked_mul(10) followed by u32::checked_add(d), on the limbs <<low, high>>
U32MulAdd(v, d) ==
    LET low == v[1] * 10 + d
        high == v[2] * 10 + low \div 65536
    IN  [ok |-> high < 65536, value |-> <<low % 65536, high % 65536>>]

\* the digit loop of u32::from_str_radix(digits, 10)
RECURSIVE parse_digits(_, _)
parse_digits(digits, acc) ==
    IF Len(digits) = 0 THEN [ok |-> TRUE, value |-> acc]
    ELSE IF ~IsDigit(Head(digits)) THEN [ok |-> FALSE, value |-> acc]
    ELSE LET next == U32MulAdd(acc, DigitValue(Head(digits)))
         IN  IF next.ok THEN parse_digits(Tail(digits), next.value) ELSE next

\* str::parse::<u32>()
parse_u32(s) ==
    IF Len(s) = 0 THEN [ok |-> FALSE, value |-> <<0, 0>>]
    ELSE IF Head(s) = "+"
    THEN IF Len(s) = 1 THEN [ok |-> FALSE, value |-> <<0, 0>>]
         ELSE parse_digits(Tail(s), <<0, 0>>)
    ELSE parse_digits(s, <<0, 0>>)

\* a < b for u32 values held as limbs
U32Less(a, b) == a[2] < b[2] \/ (a[2] = b[2] /\ a[1] < b[1])

\* a comparison that looks at the major version only
version_less_major(a, b) == U32Less(a[1], b[1])

\* (u32, u32, u32) < (u32, u32, u32): PartialOrd of tuples is lexicographic
version_less(a, b) ==
    \/ U32Less(a[1], b[1])
    \/ a[1] = b[1] /\ U32Less(a[2], b[2])
    \/ a[1] = b[1] /\ a[2] = b[2] /\ U32Less(a[3], b[3])

\* the closure `parse` of validate_update_version
parse_version(version) ==
    LET v == split(trim_start_matches(version, "v"), "-")[1]
        parts == split(v, ".")
    IN  IF Len(parts) /= 3 THEN [ok |-> FALSE, value |-> <<>>]
        ELSE LET major == parse_u32(parts[1])
                 minor == parse_u32(parts[2])
                 patch == parse_u32(parts[3])
             IN  [ok |-> major.ok /\ minor.ok /\ patch.ok,
                  value |-> <<major.value, minor.value, patch.value>>]

validate_update_version(current, candidate) ==
    LET cur == parse_version(current)
        cand == parse_version(candidate)
    IN  IF ~cur.ok THEN "Err"
        ELSE IF ~cand.ok THEN "Err"
        ELSE IF version_less(cand.value, cur.value) THEN "Err"
        ELSE "Ok"

\* a caller validates a candidate version against a current one
ValidateUpdateVersion(current, candidate) ==
    /\ lastCommand' = [fn |-> "validate_update_version", args |-> <<current, candidate>>,
                       result |-> validate_update_version(current, candidate)]
    /\ UNCHANGED <<hookStatics, lastDown, layerStatics, hookEnv, hookObs, shellEnv,
                   lifecycle, watchObs, leaveVars, workerVars>>

\* ---- url::Url::parse, as far as the validations look at its result ----

AsciiUpper == "ABCDEFGHIJKLMNOPQRSTUVWXYZ"
AsciiLower == "abcdefghijklmnopqrstuvwxyz"
HexDigits == "0123456789abcdef"

\* char::to_ascii_lowercase
LowerChar(c) ==
    IF IndexIn(AsciiUpper, c) > 0 THEN CharAt(AsciiLower, IndexIn(AsciiUpper, c)) ELSE c

\* str::to_ascii_lowercase
RECURSIVE to_ascii_lowercase(_)
to_ascii_lowercase(s) ==
    IF Len(s) = 0 THEN "" ELSE LowerChar(Head(s)) \o to_ascii_lowercase(Tail(s))

\* the first position of s from i on that holds one of the characters,
\* Len(s) + 1 if none does
RECURSIVE FindFrom(_, _, _)
FindFrom(s, chars, i) ==
    IF i > Len(s) THEN i
    ELSE IF IndexIn(chars, CharAt(s, i)) > 0 THEN i
    ELSE FindFrom(s, chars, i + 1)

FindAny(s, chars) == FindFrom(s, chars, 1)

\* the last position of s that holds the character, 0 if none does
FindLast(s, c) ==
    CHOOSE n \in 0..Len(s) :
        /\ \A i \in (n + 1)..Len(s) : CharAt(s, i) /= c
        /\ n > 0 => CharAt(s, n) = c

\* the string from position i on
From(s, i) == SubSeq(s, i, Len(s))

\* the sequence of strings joined with a separator in front of each
RECURSIVE JoinWith(_, _)
JoinWith(pieces, sep) ==
    IF pieces = <<>> THEN "" ELSE sep \o Head(pieces) \o JoinWith(Tail(pieces), sep)

\* the value of a string of digits of the radix, -1 if a character is no such digit
RECURSIVE ParseRadix(_, _, _)
ParseRadix(s, radix, acc) ==
    IF Len(s) = 0 THEN acc
    ELSE LET d == IndexIn(SubSeq(HexDigits, 1, radix), Head(s)) - 1
         IN  IF d < 0 THEN -1 ELSE ParseRadix(Tail(s), radix, acc * radix + d)

\* the input without the spaces around it (the parser trims C0 controls and spaces)
RECURSIVE TrimSpaces(_)
TrimSpaces(s) ==
    IF Len(s) > 0 /\ Head(s) = " " THEN TrimSpaces(Tail(s))
    ELSE IF Len(s) > 0 /\ CharAt(s, Len(s)) = " " THEN TrimSpaces(SubSeq(s, 1, Len(s) - 1))
    ELSE s

\* Parser::parse_scheme: a letter, then letters, digits, '+', '-' and '.', up to ':'
IsSchemeText(s) ==
    /\ Len(s) > 0
    /\ IndexIn(AsciiLower, LowerChar(Head(s))) > 0
    /\ \A i \in 1..Len(s) :
          IndexIn(AsciiLower \o DecimalDigits \o "+-.", LowerChar(CharAt(s, i))) > 0

\* the schemes with an authority of the special kind
SpecialNotFile == {"http", "https", "ws", "wss", "ftp"}

\* parse_ipv4number: "0x" introduces hexadecimal, a leading "0" octal
Ipv4Number(part) ==
    IF Len(part) = 0 THEN -1
    ELSE IF Len(part) >= 2 /\ SubSeq(part, 1, 2) = "0x" THEN ParseRadix(From(part, 3), 16, 0)
    ELSE IF Len(part) >= 2 /\ Head(part) = "0" THEN ParseRadix(Tail(part), 8, 0)
    ELSE ParseRadix(part, 10, 0)

\* a host whose last label is a number is an IPv4 address (ends_in_a_number)
EndsInNumber(host) ==
    LET h == IF Len(host) > 0 /\ CharAt(host, Len(host)) = "."
             THEN SubSeq(host, 1, Len(host) - 1) ELSE host
        labels == split(h, ".")
        last == labels[Len(labels)]
    IN  /\ Len(last) > 0
        /\ \/ \A i \in 1..Len(last) : IsDigit(CharAt(last, i))
           \/ Len(last) >= 2 /\ SubSeq(last, 1, 2) = "0x" /\ ParseRadix(From(last, 3), 16, 0) >= 0

\* the big-endian bytes of v, n of them
RECURSIVE BytesOf(_, _)
BytesOf(v, n) == IF n = 0 THEN <<>> ELSE BytesOf(v \div 256, n - 1) \o <<v % 256>>

\* 256^n for n of 1..3
Pow256(n) == IF n = 1 THEN 256 ELSE IF n = 2 THEN 65536 ELSE 16777216

\* parse_ipv4addr: up to four numbers, the last one filling the remaining bytes
parse_ipv4addr(host) ==
    LET h == IF Len(host) > 0 /\ CharAt(host, Len(host)) = "."
             THEN SubSeq(host, 1, Len(host) - 1) ELSE host
        parts == split(h, ".")
        n == Len(parts)
        numbers == [i \in 1..n |-> Ipv4Number(parts[i])]
    IN  IF n > 4 \/ \E i \in 1..n : numbers[i] < 0
        THEN [ok |-> FALSE, octets |-> <<>>]
        ELSE IF \E i \in 1..(n - 1) : numbers[i] > 255
        THEN [ok |-> FALSE, octets |-> <<>>]
        ELSE IF n > 1 /\ numbers[n] >= Pow256(5 - n)
        THEN [ok |-> FALSE, octets |-> <<>>]
        ELSE [ok |-> TRUE,
              octets |-> SubSeq(numbers, 1, n - 1) \o BytesOf(numbers[n], 5 - n)]

\* the lowercase hexadecimal text of v
RECURSIVE HexOf(_)
HexOf(v) ==
    IF v < 16 THEN CharAt(HexDigits, v + 1)
    ELSE HexOf(v \div 16) \o CharAt(HexDigits, (v % 16) + 1)

\* a group of one to four hexadecimal digits, -1 if it is none
HexGroup(g) == IF Len(g) \in 1..4 THEN ParseRadix(g, 16, 0) ELSE -1

\* the two segments of a dotted-decimal tail a.b.c.d, <<-1>> if it is none
DottedSegments(tail) ==
    LET parts == split(tail, ".")
        octets == [i \in 1..Len(parts) |->
                     IF Len(parts[i]) \in 1..3 THEN ParseRadix(parts[i], 10, 0) ELSE -1]
    IN  IF Len(parts) = 4 /\ \A i \in 1..4 : octets[i] \in 0..255
        THEN <<octets[1] * 256 + octets[2], octets[3] * 256 + octets[4]>>
        ELSE <<-1>>

\* the segments written on one side of "::"; the last group may be dotted
SegmentsOf(text, dotted) ==
    IF Len(text) = 0 THEN <<>>
    ELSE LET groups == split(text, ":")
             n == Len(groups)
             init == [i \in 1..(n - 1) |-> HexGroup(groups[i])]
         IN  IF dotted /\ FindAny(groups[n], ".") <= Len(groups[n])
             THEN init \o DottedSegments(groups[n])
             ELSE init \o <<HexGroup(groups[n])>>

\* the position of the first "::" of s, 0 if there is none
FindDouble(s) ==
    IF \E i \in 1..(Len(s) - 1) : SubSeq(s, i, i + 1) = "::"
    THEN CHOOSE n \in 1..(Len(s) - 1) :
            /\ SubSeq(s, n, n + 1) = "::"
            /\ \A j \in 1..(n - 1) : SubSeq(s, j, j + 1) /= "::"
    ELSE 0

\* parse_ipv6addr: eight 16-bit segments, "::" standing for the zero segments left out
parse_ipv6addr(text) ==
    LET s == to_ascii_lowercase(text)
        d == FindDouble(s)
        left == IF d = 0 THEN <<>> ELSE SegmentsOf(SubSeq(s, 1, d - 1), FALSE)
        right == IF d = 0 THEN SegmentsOf(s, TRUE) ELSE SegmentsOf(From(s, d + 2), TRUE)
        given == Len(left) + Len(right)
        segs == left \o [i \in 1..(8 - given) |-> 0] \o right
    IN  IF (d = 0 /\ given /= 8) \/ (d > 0 /\ given > 7)
           \/ (\E i \in 1..Len(left) : left[i] < 0)
           \/ (\E k \in 1..Len(right) : right[k] < 0)
        THEN [ok |-> FALSE, kind |-> "none", name |-> "", octets |-> <<>>, segs |-> <<>>]
        ELSE [ok |-> TRUE, kind |-> "ipv6", name |-> "", octets |-> <<>>, segs |-> segs]

NoHost == [ok |-> TRUE, kind |-> "none", name |-> "", octets |-> <<>>, segs |-> <<>>]
HostErr == [ok |-> FALSE, kind |-> "none", name |-> "", octets |-> <<>>, segs |-> <<>>]

\* the characters a domain must not hold
ForbiddenHostChars == " #%/:<>?@[\\]^|"

\* Host::parse: a bracketed IPv6 address, an IPv4 address or a domain in lower case
parse_host(input) ==
    IF Len(input) > 0 /\ Head(input) = "["
    THEN IF CharAt(input, Len(input)) /= "]" THEN HostErr
         ELSE parse_ipv6addr(SubSeq(input, 2, Len(input) - 1))
    ELSE LET domain == to_ascii_lowercase(input)
         IN  IF Len(domain) = 0 THEN HostErr
             ELSE IF FindAny(domain, ForbiddenHostChars) <= Len(domain) THEN HostErr
             ELSE IF EndsInNumber(domain)
             THEN LET v4 == parse_ipv4addr(domain)
                  IN  IF v4.ok
                      THEN [ok |-> TRUE, kind |-> "ipv4", name |-> "",
                            octets |-> v4.octets, segs |-> <<>>]
                      ELSE HostErr
             ELSE [ok |-> TRUE, kind |-> "domain", name |-> domain,
                   octets |-> <<>>, segs |-> <<>>]

\* the host and the port of the authority text behind the user information
SplitHostPort(hostport) ==
    LET close == FindAny(hostport, "]")
        hostEnd == IF Len(hostport) > 0 /\ Head(hostport) = "["
                   THEN IF close <= Len(hostport) THEN close ELSE Len(hostport)
                   ELSE FindAny(hostport, ":") - 1
        port == From(hostport, hostEnd + 1)
    IN  [host |-> SubSeq(hostport, 1, hostEnd),
         ok |-> \/ Len(port) = 0
                \/ /\ Head(port) = ":"
                   /\ Len(port) <= 6
                   /\ ParseRadix(Tail(port), 10, 0) \in 0..65535]

SingleDot == {".", "%2e"}
DoubleDot == {"..", ".%2e", "%2e.", "%2e%2e"}

\* the path segments with "." left out and ".." taking the segment before it away
RECURSIVE NormalSegments(_, _)
NormalSegments(segs, out) ==
    IF segs = <<>> THEN out
    ELSE LET seg == to_ascii_lowercase(Head(segs))
             slash == IF Len(segs) = 1 THEN <<"">> ELSE <<>>
         IN  IF seg \in DoubleDot
             THEN NormalSegments(Tail(segs),
                                 (IF out = <<>> THEN <<>> ELSE SubSeq(out, 1, Len(out) - 1))
                                 \o slash)
             ELSE IF seg \in SingleDot THEN NormalSegments(Tail(segs), out \o slash)
             ELSE NormalSegments(Tail(segs), out \o <<Head(segs)>>)

\* Url::path of a special URL
NormalPath(pathText) ==
    LET segs == NormalSegments(Tail(split(pathText, "/\\")), <<>>)
    IN  IF segs = <<>> THEN "/" ELSE JoinWith(segs, "/")

UrlErr == [ok |-> FALSE, scheme |-> "", host |-> NoHost, path |-> ""]

\* url::Url::parse(input), with no base URL
parse_url(input) ==
    LET s == TrimSpaces(input)
        colon == FindAny(s, ":")
        scheme == to_ascii_lowercase(SubSeq(s, 1, colon - 1))
        rest == From(s, colon + 1)
    IN  IF colon > Len(s) \/ ~IsSchemeText(scheme) THEN UrlErr
        ELSE IF scheme \notin SpecialNotFile
        \* neither validation looks at the rest of a URL of another scheme
        THEN [ok |-> TRUE, scheme |-> scheme, host |-> NoHost, path |-> rest]
        ELSE LET slashes == CHOOSE n \in 0..Len(rest) :
                               /\ \A i \in 1..n : IndexIn("/\\", CharAt(rest, i)) > 0
                               /\ n < Len(rest) => IndexIn("/\\", CharAt(rest, n + 1)) = 0
                 after == From(rest, slashes + 1)
                 authEnd == FindAny(after, "/\\?#")
                 authority == SubSeq(after, 1, authEnd - 1)
                 hp == SplitHostPort(From(authority, FindLast(authority, "@") + 1))
                 host == parse_host(hp.host)
                 pathText == SubSeq(after, authEnd, FindAny(after, "?#") - 1)
             IN  IF ~hp.ok \/ ~host.ok THEN UrlErr
                 ELSE [ok |-> TRUE, scheme |-> scheme, host |-> host,
                       path |-> NormalPath(pathText)]

\* the number of zero segments in a row from segment i on
ZeroRun(segs, i) ==
    CHOOSE n \in 0..(9 - i) :
        /\ \A k \in i..(i + n - 1) : segs[k] = 0
        /\ i + n <= 8 => segs[i + n] /= 0

\* the segments in hexadecimal, joined with ':'
HexJoin(segs) ==
    IF segs = <<>> THEN ""
    ELSE Tail(JoinWith([i \in 1..Len(segs) |-> HexOf(segs[i])], ":"))

\* the text of an IPv6 address: the first longest run of two or more zero
\* segments is written "::"
write_ipv6(segs) ==
    LET best == CHOOSE i \in 1..8 : \A j \in 1..8 :
                    \/ ZeroRun(segs, i) > ZeroRun(segs, j)
                    \/ ZeroRun(segs, i) = ZeroRun(segs, j) /\ i <= j
        run == ZeroRun(segs, best)
    IN  IF run < 2 THEN HexJoin(segs)
        ELSE HexJoin(SubSeq(segs, 1, best - 1)) \o "::" \o HexJoin(SubSeq(segs, best + run, 8))

\* Url::host_str: None is the record [some |-> FALSE]
host_str(parsed) ==
    LET h == parsed.host
    IN  CASE h.kind = "domain" -> [some |-> TRUE, str |-> h.name]
          [] h.kind = "ipv4" ->
                [some |-> TRUE,
                 str |-> ToString(h.octets[1]) \o "." \o ToString(h.octets[2]) \o "."
                         \o ToString(h.octets[3]) \o "." \o ToString(h.octets[4])]
          [] h.kind = "ipv6" -> [some |-> TRUE, str |-> "[" \o write_ipv6(h.segs) \o "]"]
          [] OTHER -> [some |-> FALSE, str |-> ""]

\* ---- validate_updater_endpoint and build_updater ----

ALLOWED_UPDATER_HOST == "github.com"
ALLOWED_UPDATER_PATH_PREFIX == "/MyWallpapers/app/releases/download/"

\* a host test that accepts every host below the allowed one
updater_host_ends_with(host) ==
    /\ host.some
    /\ Len(host.str) >= Len(ALLOWED_UPDATER_HOST)
    /\ From(host.str, Len(host.str) - Len(ALLOWED_UPDATER_HOST) + 1) = ALLOWED_UPDATER_HOST

\* parsed.host_str() == Some(ALLOWED_UPDATER_HOST)
updater_host_allowed(host) == host.some /\ host.str = ALLOWED_UPDATER_HOST

\* validate_updater_endpoint behind Url::parse
updater_endpoint_checks(parsed) ==
    IF ~parsed.ok THEN "Err"
    ELSE IF parsed.scheme /= "https" THEN "Err"
    ELSE IF ~updater_host_allowed(host_str(parsed)) THEN "Err"
    ELSE IF ~starts_with(parsed.path, ALLOWED_UPDATER_PATH_PREFIX) THEN "Err"
    ELSE "Ok"

validate_updater_endpoint(endpoint) == updater_endpoint_checks(parse_url(endpoint))

ValidateUpdaterEndpoint(endpoint) ==
    /\ lastCommand' = [fn |-> "validate_updater_endpoint", args |-> <<endpoint>>,
                       result |-> validate_updater_endpoint(endpoint)]
    /\ UNCHANGED <<hookStatics, lastDown, layerStatics, hookEnv, hookObs, shellEnv,
                   lifecycle, watchObs, leaveVars, workerVars>>

\* build_updater(app, endpoint): `given` tells Some from None, `built` is
\* whether the updater plugin builds an updater from what it is handed
build_updater(given, endpoint, built) ==
    IF given
    THEN IF validate_updater_endpoint(endpoint) /= "Ok"
         THEN [result |-> "Err", endpoints |-> <<>>]
         ELSE IF ~parse_url(endpoint).ok THEN [result |-> "Err", endpoints |-> <<>>]
         ELSE IF ~built THEN [result |-> "Err", endpoints |-> <<>>]
         ELSE [result |-> "Ok", endpoints |-> <<endpoint>>]
    ELSE IF ~built THEN [result |-> "Err", endpoints |-> <<>>]
         ELSE [result |-> "Ok", endpoints |-> <<"configured">>]

BuildUpdater(given, endpoint, built) ==
    /\ lastCommand' = [fn |-> "build_updater", args |-> <<given, endpoint>>,
                       result |-> build_updater(given, endpoint, built)]
    /\ UNCHANGED <<hookStatics, lastDown, layerStatics, hookEnv, hookObs, shellEnv,
                   lifecycle, watchObs, leaveVars, workerVars>>

\* ---- validate_oauth_url ----

\* Ipv4Addr::is_private: 10/8, 172.16/12 and 192.168/16
ipv4_is_private(o) ==
    \/ o[1] = 10
    \/ o[1] = 172 /\ o[2] \in 16..31
    \/ o[1] = 192 /\ o[2] = 168
\* Ipv4Addr::is_loopback: 127/8
ipv4_is_loopback(o) == o[1] = 127
\* Ipv4Addr::is_link_local: 169.254/16
ipv4_is_link_local(o) == o[1] = 169 /\ o[2] = 254
\* Ipv4Addr::is_unspecified
ipv4_is_unspecified(o) == o = <<0, 0, 0, 0>>

\* Ipv6Addr::is_loopback and is_unspecified
ipv6_is_loopback(segs) == segs = <<0, 0, 0, 0, 0, 0, 0, 1>>
ipv6_is_unspecified(segs) == segs = <<0, 0, 0, 0, 0, 0, 0, 0>>

\* v & mask for a mask of high bits: the low bits below `unit` are cleared
MaskHigh(v, unit) == v - (v % unit)

\* Ipv6Addr::to_ipv4_mapped: ::ffff:a.b.c.d
to_ipv4_mapped(segs) ==
    IF SubSeq(segs, 1, 6) = <<0, 0, 0, 0, 0, 65535>>
    THEN [some |-> TRUE,
          octets |-> <<segs[7] \div 256, segs[7] % 256, segs[8] \div 256, segs[8] % 256>>]
    ELSE [some |-> FALSE, octets |-> <<>>]

\* a test of the embedded IPv4 address that looks for private addresses only
mapped_blocked_private_only(o) == ipv4_is_private(o)

\* the test applied to the IPv4 address of an IPv4-mapped address
mapped_blocked(o) ==
    ipv4_is_private(o) \/ ipv4_is_loopback(o) \/ ipv4_is_link_local(o)
    \/ ipv4_is_unspecified(o)

\* validate_oauth_url: the match on parsed.host() of an https URL
oauth_host_checks(h) ==
    IF h.kind = "ipv4"
    THEN IF ipv4_is_private(h.octets) \/ ipv4_is_loopback(h.octets)
            \/ ipv4_is_link_local(h.octets) \/ ipv4_is_unspecified(h.octets)
         THEN "Err" ELSE "Ok"
    ELSE IF h.kind = "ipv6"
    THEN IF ipv6_is_loopback(h.segs) \/ ipv6_is_unspecified(h.segs) THEN "Err"
         \* segs[0] & 0xfe00 == 0xfc00
         ELSE IF MaskHigh(h.segs[1], 512) = 64512 THEN "Err"
         \* segs[0] & 0xffc0 == 0xfe80
         ELSE IF MaskHigh(h.segs[1], 64) = 65152 THEN "Err"
         ELSE IF to_ipv4_mapped(h.segs).some /\ mapped_blocked(to_ipv4_mapped(h.segs).octets)
         THEN "Err"
         ELSE "Ok"
    ELSE "Ok"

\* validate_oauth_url: the match on parsed.scheme(), host being
\* parsed.host_str().unwrap_or("")
oauth_scheme_checks(parsed, host) ==
    IF ~parsed.ok THEN "Err"
    ELSE IF parsed.scheme = "http"
    THEN IF host /= "localhost" /\ host /= "127.0.0.1" /\ host /= "[::1]"
         THEN "Err" ELSE "Ok"
    ELSE IF parsed.scheme /= "https" THEN "Err"
    ELSE oauth_host_checks(parsed.host)

\* Option::unwrap_or("")
unwrap_or_empty(opt) == IF opt.some THEN opt.str ELSE ""

\* validate_oauth_url behind Url::parse
oauth_url_checks(parsed) == oauth_scheme_checks(parsed, unwrap_or_empty(host_str(parsed)))

validate_oauth_url(url_str) == oauth_url_checks(parse_url(url_str))

ValidateOauthUrl(url_str) ==
    /\ lastCommand' = [fn |-> "validate_oauth_url", args |-> <<url_str>>,
                       result |-> validate_oauth_url(url_str)]
    /\ UNCHANGED <<hookStatics, lastDown, layerStatics, hookEnv, hookObs, shellEnv,
                   lifecycle, watchObs, leaveVars, workerVars>>

-----------------------------------------------------------------------------
(* The state after setup *)

\* the state setup leaves behind on a machine with the direct topology
SetupReached ==
    /\ WEBVIEW_HWND = OurHwnd
    /\ SYSLISTVIEW_HWND = ListView(1)
    /\ TARGET_PARENT_HWND = WallpaperWorkerW(1)
    /\ PROGMAN_HWND = Progman(1)
    /\ EXPLORER_PID = Pid.explorer
    /\ DESKTOP_CORE_HWND = NULL_HWND
    /\ DRAG_VK = 0
    /\ CHROME_RWHH = NULL_HWND
    /\ LAST_DOWN_TIME = 0 /\ LAST_DOWN_X = 0 /\ LAST_DOWN_Y = 0
    /\ ICONS_RESTORED = FALSE
    /\ HOOK_HANDLE_GLOBAL = HookHandle
    /\ IS_SESSION_ACTIVE = TRUE
    /\ WATCHDOG_PARENT = WallpaperWorkerW(1)
    /\ held = {}
    /\ slvVisible = TRUE
    /\ dispatchQueue = <<>>
    /\ shellGen = 1 /\ progmanUp = TRUE /\ workerUp = TRUE /\ topology = "direct"
    /\ ourParent = WallpaperWorkerW(1)
    /\ lastHook = NoHook
    /\ lastDispatch = NoDispatch
    /\ gesture = NoGesture
    /\ forwardedDown = {}
    /\ prevPress = [b \in {"L", "R", "M"} |-> NoPress]
    /\ spawnLeft = 0
    /\ ourWindow = injected_window(PlainWindow, virtualScreen[1], virtualScreen[2])
    /\ setupPc = "done" /\ hookPc = "run"
    /\ hooksInstalled = {HookHandle}
    /\ tdPc = [c \in Callers |-> "idle"]
    /\ tdReturned = [c \in Callers |-> 0]
    /\ tdLog = <<>>
    /\ props = [h \in LeaveWindows |-> {}]
    /\ lastDetect = [by |-> "setup", root |-> TRUE, topo |-> "direct", needed |-> 0,
                     had |-> TRUE, signals |-> 1,
                     sent |-> spawn_messages, result |-> detect_desktop(TRUE)]
    /\ lastWatchdog = NoWatchdog
    /\ lastInject = [d |-> detect_desktop(TRUE), skipped |-> FALSE,
                     before |-> [parent |-> NULL_HWND, window |-> PlainWindow]]
    /\ lastToggle = NoToggle
    /\ lastLeave = NoLeave
    /\ lastCommand = NoCommand
    /\ MONITOR_RUNNING = FALSE
    /\ monitorThreads = <<>>

\* ... with the relay window created and the wait for the renderer over
SetupDone ==
    /\ SetupReached
    /\ DISPATCH_HWND = DispatchHwnd
    /\ pollThread = [pc |-> "done", tries |-> POLL_ATTEMPTS, got |-> COMP_CONTROLLER_PTR,
                     w |-> virtualScreen[1], h |-> virtualScreen[2],
                     posted |-> IF COMP_CONTROLLER_PTR = 0 THEN <<>>
                                ELSE post_setbounds(virtualScreen[1], virtualScreen[2])]

-----------------------------------------------------------------------------
(* Spec: pointer routing -- presses, moves and releases of two buttons over  *)
(* the content surface, the icon list and another application's window     *)

\* relay messages in flight while the next pointer event arrives
RoutingQueue == 1

RoutingWindows == {OurHwnd, ListView(1), AppWindow}
RoutingMsgs == {MOUSE_MOVE, MOUSE_LDOWN, MOUSE_LUP, MOUSE_RDOWN, MOUSE_RUP, MOUSE_WHEEL}

Init ==
    /\ COMP_CONTROLLER_PTR = 0
    /\ relayTrace = NoTrace
    /\ now = 1
    /\ wvOrigin = <<0, 0>>
    /\ virtualScreen = <<1920, 1080>>
    /\ SetupDone

Next ==
    \/ \E msg \in RoutingMsgs, h \in RoutingWindows :
          Len(dispatchQueue) < RoutingQueue
          /\ PointerEvent(0, msg, h, <<1, 1>>,
                          IF msg \in WheelMsgs THEN <<0, 120>> ELSE <<0, 0>>, {})
    \/ DispatchWndProc
    \/ \E visible \in BOOLEAN : set_desktop_icons_visible(visible)

Spec == Init /\ [][Next]_vars

\* the destinations a hook_proc call delivered its event to
DestsOf(h) ==
    (IF h.relay /= <<>> THEN {"content"} ELSE {})
    \cup (IF h.icons /= <<>> THEN {"icons"} ELSE {})

\* C1: every event of a press -> move* -> release sequence goes to exactly one
\* destination, the one the press went to
C1_OwnershipInvariance ==
    lastHook.seq.btn /= "none" =>
        /\ Cardinality(lastHook.seq.dests) = 1
        /\ DestsOf(lastHook) = lastHook.seq.dests

\* C4: once a press was forwarded to the content surface, every later move and
\* the matching release are forwarded to it too, whatever is under the cursor
C4_ContentKeepsGesture ==
    (lastHook.seq.btn /= "none" /\ "content" \in lastHook.seq.dests) =>
        lastHook.relay /= <<>>

ButtonOfMask(vk) ==
    IF vk = MK_LBUTTON THEN "L"
    ELSE IF vk = MK_RBUTTON THEN "R"
    ELSE IF vk = MK_MBUTTON THEN "M"
    ELSE "none"

\* C5: the active drag button set at a press is reset to idle only by the release
\* of that same button
C5_ResetOnlyByMatchingRelease ==
    [][(DRAG_VK /= 0 /\ DRAG_VK' = 0) =>
          /\ lastHook'.event.wparam \in ReleaseMsgs
          /\ ButtonOf(lastHook'.event.wparam) = ButtonOfMask(DRAG_VK)]_vars

-----------------------------------------------------------------------------
(* SpecSession: pointer events while the session is locked and unlocked *)

SessionMsgs == {MOUSE_MOVE, MOUSE_LDOWN, MOUSE_LUP, MOUSE_WHEEL}

InitSession == Init

NextSession ==
    \/ \E code \in {0, -1}, msg \in SessionMsgs, h \in RoutingWindows :
          Len(dispatchQueue) < RoutingQueue
          /\ PointerEvent(code, msg, h, <<1, 1>>,
                          IF msg \in WheelMsgs THEN <<0, 120>> ELSE <<0, 0>>, {})
    \/ DispatchWndProc
    \/ \E code \in {WTS_SESSION_LOCK, WTS_SESSION_UNLOCK} :
          Len(dispatchQueue) < RoutingQueue /\ SessionNotify(code)

SpecSession == InitSession /\ [][NextSession]_vars

\* C2: a hook call made while the session is not active posts nothing to the
\* relay, nothing to the icon layer, and hands the event it was given to the
\* next hook
C2_SessionSuppression ==
    ~lastHook.session =>
        /\ lastHook.relay = <<>>
        /\ lastHook.icons = <<>>
        /\ lastHook.next = lastHook.event

C2_Witness ==
    /\ ~lastHook.session
    /\ lastHook.event.code = 0
    /\ lastHook.event.wparam = MOUSE_LDOWN
    /\ lastHook.hwnd = OurHwnd
    /\ slvVisible

-----------------------------------------------------------------------------
(* SpecDbl: presses and releases on the icon list at varying times and places *)

\* the same spot, the farthest spot still inside the horizontal threshold, and
\* the nearest spot outside the vertical one
DblPoints == {<<0, 0>>, <<CxDoubleClk \div 2, 0>>, <<0, CyDoubleClk \div 2 + 1>>}
\* the left button at each of them, the right button at the first
DblEvents ==
    ({MOUSE_LDOWN, MOUSE_LUP} \X DblPoints) \cup ({MOUSE_RDOWN, MOUSE_RUP} \X {<<0, 0>>})

InitDbl == Init

NextDbl ==
    \/ \E ev \in DblEvents :
          \* the relay keeps up with the pointer
          dispatchQueue = <<>>
          /\ PointerEvent(0, ev[1], ListView(1), ev[2], <<0, 0>>, {})
    \/ Tick
    \/ DispatchWndProc
    \/ \E visible \in BOOLEAN : set_desktop_icons_visible(visible)

SpecDbl == InitDbl /\ [][NextDbl]_vars

\* the press the latest hook call handled came within the double-click time and
\* distance of the previous press of its button that reached the icon layer, and
\* that one went out as a plain press
SecondPressInReach ==
    LET e == lastHook.event
        p == lastHook.prev
    IN  /\ e.wparam \in PressMsgs
        /\ lastHook.icons /= <<>>
        /\ p.msg = e.wparam
        /\ e.info[3] - p.time <= DoubleClickTime
        /\ Abs(e.info[1][1] - p.x) <= CxDoubleClk \div 2
        /\ Abs(e.info[1][2] - p.y) <= CyDoubleClk \div 2

-----------------------------------------------------------------------------
(* SpecCoord: one pointer event at a chosen point of the content surface,    *)
(* followed through the relay to the renderer                               *)

\* one full-HD monitor; nine 3840x2160 monitors side by side
CoordScreens == {<<1920, 1080>>, <<34560, 2160>>}
\* the virtual screen starts at the primary monitor, or left of and above it
CoordOrigins == {<<0, 0>>, <<-1920, 0>>, <<-3840, -1080>>}
\* offsets from the origin: the first and last pixel, and those around 2^15
CoordOffsets(size) == {d \in {0, 1, size - 1, 32767, 32768} : d < size}
CoordMsgs == {MOUSE_MOVE, MOUSE_LDOWN, MOUSE_RDOWN, MOUSE_WHEEL}

InitCoord ==
    /\ COMP_CONTROLLER_PTR = 64
    /\ relayTrace = NoTrace
    /\ now = 1
    /\ virtualScreen \in CoordScreens
    /\ wvOrigin \in CoordOrigins
    /\ SetupDone

NextCoord ==
    \/ \E msg \in CoordMsgs, dx \in CoordOffsets(virtualScreen[1]),
          dy \in CoordOffsets(virtualScreen[2]) :
          /\ lastHook = NoHook
          /\ PointerEvent(0, msg, OurHwnd, <<wvOrigin[1] + dx, wvOrigin[2] + dy>>,
                          IF msg \in WheelMsgs THEN <<0, 120>> ELSE <<0, 0>>, {})
    \/ DispatchWndProc

SpecCoord == InitCoord /\ [][NextCoord]_vars

\* the screen point of the latest hook call, relative to the content surface
OffsetX == lastHook.event.info[1][1] - wvOrigin[1]
OffsetY == lastHook.event.info[1][2] - wvOrigin[2]
RendererGot(x, y) ==
    \A i \in 1..Len(lastDispatch.calls) :
        lastDispatch.calls[i].x = x /\ lastDispatch.calls[i].y = y

\* C9: whatever the point inside the container, the renderer receives
\* the screen point minus the content surface's origin
C9_TranslationAnywhere ==
    lastDispatch.calls /= <<>> => RendererGot(OffsetX, OffsetY)

-----------------------------------------------------------------------------
(* SpecOrder: pointer events of several kinds at several points, forwarded   *)
(* while earlier relay messages and session notifications wait in the       *)
(* dispatch window's queue; the relay is recorded                           *)

OrderMsgs == {MOUSE_MOVE, MOUSE_LDOWN, MOUSE_LUP, MOUSE_WHEEL}
OrderPoints == {<<1, 1>>, <<2, 3>>}

InitOrder ==
    /\ COMP_CONTROLLER_PTR = 64
    /\ relayTrace = [NoTrace EXCEPT !.on = TRUE]
    /\ now = 1
    /\ wvOrigin = <<0, 0>>
    /\ virtualScreen = <<1920, 1080>>
    /\ SetupDone

NextOrder ==
    \/ \E msg \in OrderMsgs, pt \in OrderPoints :
          /\ Len(dispatchQueue) < MaxQueue
          /\ Len(relayTrace.posted) < MaxPosted
          /\ PointerEvent(0, msg, OurHwnd, pt,
                          IF msg \in WheelMsgs THEN <<0, 120>> ELSE <<0, 0>>, {})
    \/ DispatchWndProc
    \/ \E code \in {WTS_SESSION_LOCK, WTS_SESSION_UNLOCK} :
          \* one session change at a time
          /\ \A i \in DOMAIN dispatchQueue : dispatchQueue[i].msg /= WM_WTSSESSION_CHANGE
          /\ SessionNotify(code)

SpecOrder == InitOrder /\ [][NextOrder]_vars

\* relay messages waiting in the dispatch window's queue
RelayWaiting == SelectSeq(dispatchQueue, LAMBDA m : m.msg = WM_MWP_MOUSE)
\* the renderer call that carries the event itself: the last one of a dispatch
EventCall(calls) == calls[Len(calls)]

\* C11 (relay ordering): the i-th relay message handed to the renderer is the
\* i-th event the hook forwarded, with the kind and the surface-local point of
\* that event; the messages still waiting are the later ones, in the order
\* they were posted; none is lost, duplicated or overtaken.
C11_RelayOrdering ==
    LET t == relayTrace
    IN  /\ Len(t.posted) = Len(t.seen)
        /\ Len(t.handed) <= Len(t.posted)
        /\ \A i \in 1..Len(t.handed) :
              /\ t.handed[i] = dispatch_calls(t.posted[i])
              /\ EventCall(t.handed[i]).kind = t.seen[i].wparam
              /\ <<EventCall(t.handed[i]).x, EventCall(t.handed[i]).y>>
                    = ScreenToClient(WEBVIEW_HWND, t.seen[i].info[1])
        /\ RelayWaiting = SubSeq(t.posted, Len(t.handed) + 1, Len(t.posted))

\* three different events were forwarded; the first two have reached the
\* renderer while the third waits behind a session notification
C11_Witness ==
    /\ Len(relayTrace.seen) = 3
    /\ Len(relayTrace.handed) = 2
    /\ relayTrace.seen[1].wparam = MOUSE_LDOWN
    /\ relayTrace.seen[2].wparam = MOUSE_MOVE
    /\ relayTrace.seen[2].info[1] /= relayTrace.seen[1].info[1]
    /\ relayTrace.seen[3].wparam = MOUSE_LUP
    /\ Len(dispatchQueue) = 2
    /\ dispatchQueue[1].msg = WM_WTSSESSION_CHANGE

\* C12 (cursor sync before a press): a relay message dispatched while the
\* renderer input handle is set makes, for a press, exactly two renderer calls,
\* a move and then the press, both with the message's button mask and
\* coordinates; for every other kind exactly one call, the event itself.
C12_MoveBeforePress ==
    LET d == lastDispatch
        kind == d.wp[1]
        vk == d.wp[2]
        data == <<d.wp[3], d.wp[4]>>
        x == ToI16(d.lp[1])
        y == ToI16(d.lp[2])
        own == RendererCall("send_mouse_input_raw", kind, vk, data, x, y)
        move == RendererCall("send_mouse_input_raw", MOUSE_MOVE, vk, <<0, 0>>, x, y)
    IN  (d.msg = WM_MWP_MOUSE /\ d.ptr /= 0) =>
            IF kind \in PressMsgs THEN d.calls = <<move, own>> ELSE d.calls = <<own>>

\* a left press at (2,3) was dispatched: the renderer got a move to (2,3) with
\* the left button's mask, then the press
C12_Witness ==
    /\ lastDispatch.msg = WM_MWP_MOUSE /\ lastDispatch.ptr /= 0
    /\ lastDispatch.wp[1] = MOUSE_LDOWN
    /\ Len(lastDispatch.calls) = 2
    /\ lastDispatch.calls[1].kind = MOUSE_MOVE
    /\ lastDispatch.calls[1].vk = MK_LBUTTON
    /\ lastDispatch.calls[1].x = 2 /\ lastDispatch.calls[1].y = 3
    /\ lastDispatch.calls[2].kind = MOUSE_LDOWN

-----------------------------------------------------------------------------
(* SpecWatch: setup, shell restarts and the watchdog                        *)

\* the process before setup_desktop_window is called
Unstarted ==
    /\ WEBVIEW_HWND = NULL_HWND
    /\ SYSLISTVIEW_HWND = NULL_HWND
    /\ TARGET_PARENT_HWND = NULL_HWND
    /\ PROGMAN_HWND = NULL_HWND
    /\ EXPLORER_PID = 0
    /\ DESKTOP_CORE_HWND = NULL_HWND
    /\ COMP_CONTROLLER_PTR = 0
    /\ DRAG_VK = 0
    /\ DISPATCH_HWND = NULL_HWND
    /\ CHROME_RWHH = NULL_HWND
    /\ LAST_DOWN_TIME = 0 /\ LAST_DOWN_X = 0 /\ LAST_DOWN_Y = 0
    /\ ICONS_RESTORED = FALSE
    /\ HOOK_HANDLE_GLOBAL = 0
    /\ IS_SESSION_ACTIVE = TRUE
    /\ WATCHDOG_PARENT = NULL_HWND
    /\ now = 1 /\ held = {} /\ slvVisible = TRUE /\ wvOrigin = <<0, 0>>
    /\ dispatchQueue = <<>>
    /\ ourParent = NULL_HWND
    /\ setupPc = "none" /\ hookPc = "none"
    /\ hooksInstalled = {}
    /\ tdPc = [c \in Callers |-> "idle"]
    /\ tdReturned = [c \in Callers |-> 0]
    /\ tdLog = <<>>
    /\ props = [h \in LeaveWindows |-> {}]
    /\ lastHook = NoHook
    /\ lastDispatch = NoDispatch
    /\ gesture = NoGesture
    /\ forwardedDown = {}
    /\ prevPress = [b \in {"L", "R", "M"} |-> NoPress]
    /\ lastDetect = NoDetect
    /\ lastWatchdog = NoWatchdog
    /\ lastInject = NoInject
    /\ lastToggle = NoToggle
    /\ lastLeave = NoLeave
    /\ lastCommand = NoCommand
    /\ pollThread = NoPoll
    /\ MONITOR_RUNNING = FALSE
    /\ monitorThreads = <<>>

\* spawn messages a shell needs before its WorkerW exists
SpawnNeeds == {0, 1, 2, MaxSignals, MaxSignals + 2}
Topologies == {"direct", "nested", "bare"}

InitWatch ==
    /\ Unstarted
    /\ relayTrace = NoTrace
    /\ ourWindow = PlainWindow
    /\ virtualScreen = <<1920, 1080>>
    /\ shellGen = 1
    /\ progmanUp \in BOOLEAN
    /\ topology \in Topologies
    /\ spawnLeft \in IF progmanUp THEN SpawnNeeds ELSE {0}
    /\ workerUp = (progmanUp /\ spawnLeft = 0)

NextWatch ==
    \/ EnsureInWorkerW
    \/ HookInstall
    \/ HookStore
    \/ WatchdogCycle
    \/ ShellExit
    \/ \E topo \in Topologies, need \in SpawnNeeds : ShellStart(topo, need)
    \/ \E need \in SpawnNeeds : WorkerClose(need)

\* the watchdog thread is never starved: its sleep ends and the cycle runs
SpecWatch == InitWatch /\ [][NextWatch]_vars /\ WF_vars(WatchdogCycle)

\* the handle the watchdog watches is no longer a window
Stale == setupPc = "done" /\ WATCHDOG_PARENT /= NULL_HWND /\ ~IsWindow(WATCHDOG_PARENT)

\* the latest detection succeeded, its container is a live window of the running
\* shell, the content surface is its child, and the watchdog and the hook hold it
Converged ==
    /\ lastDetect.result.ok
    /\ lastDetect.result.target_parent = WATCHDOG_PARENT
    /\ WATCHDOG_PARENT = TARGET_PARENT_HWND
    /\ IsWindow(WATCHDOG_PARENT)
    /\ WATCHDOG_PARENT[2] = shellGen
    /\ GetParent(OurHwnd) = WATCHDOG_PARENT

\* C6 (re-detection convergence): a watchdog cycle that finds the watched
\* handle stale while the shell root exists ends with a successful detection,
\* the content surface a child of the new container, and WATCHDOG_PARENT and
\* TARGET_PARENT_HWND both equal to that container -- one cycle suffices;
\* and whenever the handle is stale and the shell root exists, the watchdog
\* gets there unless the shell root disappears again first.
C6_RedetectionConverges ==
    /\ [][(lastWatchdog'.seq /= lastWatchdog.seq /\ Stale /\ progmanUp) => Converged']_vars
    /\ ((Stale /\ progmanUp) ~> (Converged \/ ~progmanUp))

\* a shell restart happened and the watchdog re-injected into the new container
C6_Witness ==
    /\ lastWatchdog.stale /\ lastWatchdog.redetected
    /\ shellGen > 1
    /\ Converged
    /\ WATCHDOG_PARENT = WallpaperWorkerW(shellGen)

\* a watchdog cycle ends in this step
WatchdogRan == lastWatchdog'.seq /= lastWatchdog.seq

\* C18 (watchdog re-detection failure is retried indefinitely): every watchdog
\* cycle comes after the same sleep and, when the watched handle is stale,
\* runs detect_desktop; a cycle whose detection fails changes no hook-state
\* field, not the watched handle, and neither parent nor shape of the content
\* surface; and once set up, the watchdog runs cycle after cycle for ever.
C18_WatchdogRetries ==
    /\ [][WatchdogRan =>
            /\ lastWatchdog'.slept = WATCHDOG_SLEEP_SECS
            /\ Stale => (lastWatchdog'.stale /\ lastDetect'.by = "watchdog"
                                              /\ lastDetect'.root = progmanUp)
            /\ (Stale /\ ~progmanUp) =>
                  /\ ~lastWatchdog'.redetected /\ ~lastDetect'.result.ok
                  /\ UNCHANGED <<hookStatics, lastDown, layerStatics, ourParent,
                                 ourWindow, lifecycle>>
                  /\ Stale']_vars
    /\ []<>(setupPc = "done" => lastWatchdog.seq = 0)
    /\ []<>(setupPc = "done" => lastWatchdog.seq = 1)

\* two watchdog cycles in a row failed to find the shell root; the watched
\* handle is the WorkerW of the shell that exited
C18_Witness ==
    /\ Stale /\ ~progmanUp
    /\ lastWatchdog.stale /\ ~lastWatchdog.redetected
    /\ lastWatchdog.seq = 0
    /\ lastDetect.by = "watchdog" /\ ~lastDetect.result.ok
    /\ WATCHDOG_PARENT = WallpaperWorkerW(1)
    /\ TARGET_PARENT_HWND = WATCHDOG_PARENT

\* C8 (retry bound): a detection on a shell whose container appears within 5
\* spawn signals returns that container, and a detection on a shell that needs
\* more returns the shell root.
C8_RetryBound ==
    (lastDetect.by /= "none" /\ lastDetect.result.ok /\ ~lastDetect.had) =>
        lastDetect.result.target_parent =
            IF lastDetect.needed <= 5
            THEN WallpaperWorkerW(lastDetect.result.progman[2])
            ELSE lastDetect.result.progman

\* C13 (shell-layer-spawn trigger): a detection that found the shell root has
\* sent it message 0x052C three times before searching, with the parameters
\* (0x0D, 0), (0x0D, 1) and (0, 0), in this order.
C13_SpawnVariants ==
    (lastDetect.by /= "none" /\ lastDetect.result.ok) =>
        lastDetect.sent = <<SpawnMessage(13, 0), SpawnMessage(13, 1), SpawnMessage(0, 0)>>

\* the latest detection ran on a shell with its root window and without a
\* WorkerW to find: the shell had none and the spawn message did not create
\* one, or the shell had no icon view to find it by
NoContainer ==
    /\ lastDetect.by /= "none"
    /\ lastDetect.root
    /\ \/ lastDetect.topo = "bare"
       \/ ~lastDetect.had /\ lastDetect.needed /= 1

C15_LocatorFailureConfined ==
    /\ (lastDetect.by /= "none" /\ ~lastDetect.root) =>
          /\ ~lastDetect.result.ok
          /\ lastDetect.sent = <<>>
    /\ (lastDetect.by = "setup" /\ ~lastDetect.root) =>
          /\ setupPc = "failed"
          /\ WEBVIEW_HWND = NULL_HWND
          /\ SYSLISTVIEW_HWND = NULL_HWND
          /\ TARGET_PARENT_HWND = NULL_HWND
          /\ PROGMAN_HWND = NULL_HWND
          /\ EXPLORER_PID = 0
          /\ DISPATCH_HWND = NULL_HWND
          /\ WATCHDOG_PARENT = NULL_HWND
          /\ HOOK_HANDLE_GLOBAL = 0
          /\ ourParent = NULL_HWND
          /\ ourWindow = PlainWindow
          /\ hookPc = "none"
          /\ hooksInstalled = {}
          /\ lastWatchdog = NoWatchdog

\* setup failed for want of a shell root, and the shell has started since
C15_Witness ==
    /\ lastDetect.by = "setup" /\ ~lastDetect.root
    /\ setupPc = "failed"
    /\ progmanUp /\ workerUp
    /\ shellGen = 2

-----------------------------------------------------------------------------
(* SpecInject: apply_injection called again and again with the detection    *)
(* result of the moment, on windows created with and without the            *)
(* non-activating style, while monitors come and go and the shell loses its *)
(* WorkerW or restarts                                                      *)

InjectScreens == {<<1920, 1080>>, <<3840, 1080>>}
\* the toolkit's window as it is, and created as a non-activating popup
InjectWindows ==
    {PlainWindow,
     [PlainWindow EXCEPT !.style = @ \cup {"WS_POPUP"},
                         !.ex_style = @ \cup {"WS_EX_NOACTIVATE", "WS_EX_LAYERED"}]}

InitInject ==
    /\ Unstarted
    /\ relayTrace = NoTrace
    /\ ourWindow \in InjectWindows
    /\ virtualScreen \in InjectScreens
    /\ shellGen = 1
    /\ progmanUp = TRUE
    /\ topology \in Topologies
    /\ workerUp \in BOOLEAN
    /\ spawnLeft = 0

\* apply_injection(our_hwnd, &d) for what detection finds in the shell as it is
ApplyInjection ==
    /\ \E d \in {detect_desktop(workerUp)} :
          /\ d.ok
          /\ apply_injection(d)
    /\ UNCHANGED <<hookStatics, lastDown, layerStatics, hookEnv, hookObs, shellGen,
                   progmanUp, workerUp, topology, virtualScreen, spawnLeft, lifecycle,
                   lastDetect, lastWatchdog, lastToggle, leaveVars,
                   commandObs, workerVars>>

\* a monitor is attached or removed
DisplayChange(size) ==
    /\ virtualScreen /= size
    /\ virtualScreen' = size
    /\ UNCHANGED <<hookStatics, lastDown, layerStatics, hookEnv, hookObs, shellGen,
                   progmanUp, workerUp, topology, ourParent, spawnLeft, ourWindow,
                   lifecycle, watchObs, leaveVars,
                   commandObs, workerVars>>

NextInject ==
    \/ ApplyInjection
    \/ \E size \in InjectScreens : DisplayChange(size)
    \/ WorkerClose(1)
    \/ ShellExit
    \/ \E topo \in Topologies, need \in {0, 1} : ShellStart(topo, need)

SpecInject == InitInject /\ [][NextInject]_vars

\* C16 (injection is idempotent): a call of apply_injection that finds the
\* surface already a child of the detection's container changes neither its
\* parent nor its styles, subclass, place or size; and a call with the same
\* detection result as the call before it is such a call.
C16_InjectionIdempotent ==
    [][lastInject' /= lastInject =>
          /\ lastInject'.skipped => UNCHANGED <<ourParent, ourWindow>>
          /\ lastInject'.d = lastInject.d =>
                (lastInject'.skipped /\ UNCHANGED <<ourParent, ourWindow>>)]_vars

\* the latest call was skipped although the detection's size was not the
\* window's: the surface kept the size it had
C16_Witness ==
    /\ lastInject.d.ok /\ lastInject.skipped
    /\ ourParent = lastInject.d.target_parent
    /\ ourWindow.size /= <<lastInject.d.v_width, lastInject.d.v_height>>
    /\ ourWindow = lastInject.before.window

\* the latest apply_injection call was carried out
Injected == lastInject.d.ok /\ ~lastInject.skipped

\* C17 (with the non-activating style in effect): after an injection that was
\* not skipped the surface is a child of the container at (0,0) with the
\* detection's width and height, has no frame style, is a visible child, and
\* carries the non-activating extended style.
C17_InjectedNonActivating ==
    Injected =>
        /\ ourParent = lastInject.d.target_parent
        /\ ourWindow.pos = <<0, 0>>
        /\ ourWindow.size = <<lastInject.d.v_width, lastInject.d.v_height>>
        /\ ourWindow.style \cap FrameStyles = {}
        /\ {"WS_CHILD", "WS_VISIBLE"} \subseteq ourWindow.style
        /\ "WS_EX_NOACTIVATE" \in ourWindow.ex_style

\* C17: after an injection that was not skipped the surface is a child of the
\* container at (0,0) with the detection's width and height, has no frame
\* style, is a visible child, and has the non-activating extended style
\* cleared together with the layered and the edge styles.
C17_InjectedBorderlessChild ==
    Injected =>
        /\ ourParent = lastInject.d.target_parent
        /\ ourWindow.pos = <<0, 0>>
        /\ ourWindow.size = <<lastInject.d.v_width, lastInject.d.v_height>>
        /\ ourWindow.style \cap FrameStyles = {}
        /\ {"WS_CHILD", "WS_VISIBLE"} \subseteq ourWindow.style
        /\ ourWindow.ex_style \cap FrameExStyles = {}
        /\ "WS_EX_NOACTIVATE" \notin ourWindow.ex_style
        /\ ourWindow.subclass

\* a non-activating popup was injected into the WorkerW of a two-monitor desktop
C17_Witness ==
    /\ Injected
    /\ "WS_EX_NOACTIVATE" \in lastInject.before.window.ex_style
    /\ "WS_POPUP" \in lastInject.before.window.style
    /\ lastInject.before.window.size = <<800, 600>>
    /\ ourParent = WallpaperWorkerW(1)
    /\ ourWindow.size = <<3840, 1080>>

-----------------------------------------------------------------------------
(* SpecIcons: setup on a shell with and without an icon view, then pointer   *)
(* events over the desktop, icon toggles from the frontend and teardown      *)

IconTopologies == {"direct", "bare"}
IconWindows == {OurHwnd, Progman(1)}
IconMsgs == {MOUSE_MOVE, MOUSE_LDOWN, MOUSE_LUP}

InitIcons ==
    /\ Unstarted
    /\ relayTrace = NoTrace
    /\ ourWindow = PlainWindow
    /\ virtualScreen = <<1920, 1080>>
    /\ shellGen = 1
    /\ progmanUp = TRUE
    /\ topology \in IconTopologies
    /\ workerUp = TRUE
    /\ spawnLeft = 0

NextIcons ==
    \/ EnsureInWorkerW
    \/ HookInstall
    \/ HookStore
    \/ \E msg \in IconMsgs, h \in IconWindows :
          /\ Len(dispatchQueue) < RoutingQueue
          /\ PointerEvent(0, msg, h, <<1, 1>>, <<0, 0>>, {})
    \/ DispatchWndProc
    \/ \E visible \in BOOLEAN : set_desktop_icons_visible(visible)
    \/ TeardownEnter("quit")
    \/ TeardownShow("quit")
    \/ TeardownUnhook("quit")

SpecIcons == InitIcons /\ [][NextIcons]_vars

\* C19 (icon list not found): while the cached icon-layer handle is 0, a call
\* of set_desktop_icons_visible, for true as for false, performs no window
\* operation, changes no window's visibility and returns Ok; a hook call posts
\* nothing to the icon layer; and teardown performs no ShowWindow.
C19_NoIconList ==
    [][SYSLISTVIEW_HWND = NULL_HWND =>
          /\ lastToggle' /= lastToggle =>
                /\ lastToggle'.ops = <<>>
                /\ lastToggle'.result = "Ok"
                /\ slvVisible' = slvVisible
          /\ lastHook' /= lastHook => lastHook'.icons = <<>>
          /\ tdLog' /= tdLog =>
                /\ tdLog'[Len(tdLog')][2] /= "ShowWindow"
                /\ slvVisible' = slvVisible]_vars

\* set up without an icon list: a press over the desktop went to the relay
\* alone, the icons were toggled off to no effect, and teardown only unhooked
C19_Witness ==
    /\ setupPc = "done"
    /\ SYSLISTVIEW_HWND = NULL_HWND
    /\ lastHook.event.wparam = MOUSE_LDOWN
    /\ lastHook.relay /= <<>> /\ lastHook.icons = <<>>
    /\ lastToggle.called /\ ~lastToggle.visible /\ lastToggle.ops = <<>>
    /\ slvVisible
    /\ tdLog = <<(<<"quit", "UnhookWindowsHookEx">>)>>

\* C20 (hook installation failure): once SetWindowsHookExW has failed, the hook
\* thread never calls it again, the stored hook handle stays 0 and no hook is
\* installed, so that hook_proc is never called, nothing is posted to the relay
\* or to the icon layer, and teardown performs no unhook.
C20_HookFailureDisables ==
    /\ [](hookPc = "failed" =>
            /\ HOOK_HANDLE_GLOBAL = 0
            /\ hooksInstalled = {}
            /\ lastHook = NoHook
            /\ dispatchQueue = <<>>
            /\ lastDispatch = NoDispatch
            /\ TeardownOps("UnhookWindowsHookEx") = {})
    /\ [][hookPc = "failed" => hookPc' = "failed"]_vars

\* the hook could not be installed; teardown has run, shown the icon list and
\* returned without unhooking
C20_Witness ==
    /\ hookPc = "failed"
    /\ setupPc = "done"
    /\ tdReturned["quit"] = 1
    /\ tdLog = <<(<<"quit", "ShowWindow">>)>>
    /\ lastToggle.called

-----------------------------------------------------------------------------
(* SpecTeardown: two threads call restore_desktop_icons_and_unhook after    *)
(* setup, while the hook is running and the icons are shown or hidden; the  *)
(* frontend toggles the icons until the application begins to quit          *)

InitTeardown == Init

NextTeardown ==
    \/ \E c \in Callers : TeardownEnter(c)
    \/ \E c \in Callers : TeardownShow(c)
    \/ \E c \in Callers : TeardownUnhook(c)
    \/ \E visible \in BOOLEAN : ~ICONS_RESTORED /\ set_desktop_icons_visible(visible)
    \/ Len(dispatchQueue) < RoutingQueue
       /\ PointerEvent(0, MOUSE_MOVE, OurHwnd, <<1, 1>>, <<0, 0>>, {})
    \/ DispatchWndProc

SpecTeardown == InitTeardown /\ [][NextTeardown]_vars

\* every call that was made has returned, and at least one was made
TeardownQuiet ==
    /\ \A c \in Callers : tdPc[c] = "idle"
    /\ \E c \in Callers : tdReturned[c] > 0

\* C3 (teardown idempotence): however many calls of
\* restore_desktop_icons_and_unhook are made, one after another or from two
\* threads at once, the icon list is shown at most once and the hook removed
\* at most once, both by the one call that won the flag, and once all calls
\* have returned the end state is that of a single call: flag set, icon list
\* visible, hook uninstalled.
C3_TeardownIdempotent ==
    /\ Cardinality(TeardownOps("ShowWindow")) <= 1
    /\ Cardinality(TeardownOps("UnhookWindowsHookEx")) <= 1
    /\ \A i, j \in DOMAIN tdLog : tdLog[i][1] = tdLog[j][1]
    /\ TeardownQuiet =>
          /\ ICONS_RESTORED
          /\ slvVisible
          /\ hooksInstalled = {}
          /\ \E c \in Callers :
                tdLog = <<(<<c, "ShowWindow">>), (<<c, "UnhookWindowsHookEx">>)>>

\* both threads have called teardown, one of them twice, and all calls returned
C3_Witness ==
    /\ TeardownQuiet
    /\ \A c \in Callers : tdReturned[c] > 0
    /\ \E c \in Callers : tdReturned[c] > 1
    /\ Len(tdLog) = 2

-----------------------------------------------------------------------------
(* SpecLeave: messages pass the WH_GETMESSAGE hook in the browser process   *)
(* while the host application sets the two markers                          *)

LeaveMsgs == {WM_MOUSELEAVE_U32, MOUSE_MOVE, WM_NULL}
LeaveCodes == {-1, 0}
\* wparam of a WH_GETMESSAGE hook: PM_NOREMOVE or PM_REMOVE
LeaveWParams == {0, 1}
LeaveMarkers == {"MWP_T", "MWP_E"}

InitLeave == Init

NextLeave ==
    \/ \E code \in LeaveCodes, wparam \in LeaveWParams, hwnd \in LeaveWindows,
          message \in LeaveMsgs :
          MouseleaveHookProc(code, wparam, TRUE, [hwnd |-> hwnd, message |-> message])
    \/ \E code \in LeaveCodes, wparam \in LeaveWParams :
          MouseleaveHookProc(code, wparam, FALSE, NoMsg)
    \/ \E hwnd \in LeaveWindows, name \in LeaveMarkers : HostSetProp(hwnd, name)

SpecLeave == InitLeave /\ [][NextLeave]_vars

\* C10 (leave-event corrector): the next hook is called on every call, with the
\* arguments the hook was given; a WM_MOUSELEAVE delivered with code >= 0 for a
\* window that carries "MWP_T" but not "MWP_E" leaves the hook as WM_NULL with
\* the markers as they were; for a window that carries both it leaves the hook
\* unchanged and "MWP_E" is removed from that window; every other message, and
\* every message for a window without "MWP_T", leaves the hook unchanged with
\* all markers as they were; markers of other windows never change.
C10_LeaveCorrector ==
    LET l == lastLeave
        h == l.msg.hwnd
    IN  l.next /= <<>> =>
          /\ l.next = <<l.code, l.wparam, l.has_msg>>
          /\ l.has_msg =>
                /\ \A w \in LeaveWindows \ {h} : l.after[w] = l.before[w]
                /\ IF l.code >= 0 /\ l.msg.message = WM_MOUSELEAVE_U32
                      /\ "MWP_T" \in l.before[h]
                   THEN IF "MWP_E" \in l.before[h]
                        THEN l.out = WM_MOUSELEAVE_U32
                             /\ l.after[h] = l.before[h] \ {"MWP_E"}
                        ELSE l.out = WM_NULL /\ l.after[h] = l.before[h]
                   ELSE l.out = l.msg.message /\ l.after[h] = l.before[h]
          /\ ~l.has_msg => l.after = l.before

\* a leave event for the monitored window, which carried the monitored-surface
\* marker alone, was replaced with WM_NULL
C10_Witness ==
    /\ lastLeave.next /= <<>> /\ lastLeave.has_msg
    /\ lastLeave.code >= 0
    /\ lastLeave.msg = [hwnd |-> OurRwhh, message |-> WM_MOUSELEAVE_U32]
    /\ lastLeave.before[OurRwhh] = {"MWP_T"}
    /\ lastLeave.out = WM_NULL

-----------------------------------------------------------------------------
(* SpecVersion: validate_update_version is handed the version the            *)
(* application was built with and the version the update server offers       *)

VersionPrefixes == {"", "v", "vv"}
VersionSuffixes == {"", "-dev"}
MajorParts == {"1", "01", "+1", "10", "4294967295", "4294967296", "x", ""}
MinorPatchParts == {".0.9", ".0.10", ".1.9"}
VersionCores ==
    {major \o rest : major \in MajorParts, rest \in MinorPatchParts}
    \cup {"1.0", "1.0.0.0"}
VersionStrings ==
    {prefix \o core \o suffix :
        prefix \in VersionPrefixes, core \in VersionCores, suffix \in VersionSuffixes}

InitVersion == Init

\* the validation reads and writes no state of the application, so a behaviour
\* holds one call
NextVersion ==
    /\ lastCommand = NoCommand
    /\ \E current \in VersionStrings, candidate \in VersionStrings :
          ValidateUpdateVersion(current, candidate)

SpecVersion == InitVersion /\ [][NextVersion]_vars

\* the version string without its leading 'v' characters and without what
\* follows its first '-'
VersionCore(s) ==
    LET vs == CHOOSE n \in 0..Len(s) :
                  /\ \A i \in 1..n : CharAt(s, i) = "v"
                  /\ n < Len(s) => CharAt(s, n + 1) /= "v"
        rest == SubSeq(s, vs + 1, Len(s))
        dash == CHOOSE n \in 1..(Len(rest) + 1) :
                  /\ \A i \in 1..(n - 1) : CharAt(rest, i) /= "-"
                  /\ n <= Len(rest) => CharAt(rest, n) = "-"
    IN  SubSeq(rest, 1, dash - 1)

DotsOf(core) == {i \in 1..Len(core) : CharAt(core, i) = "."}

\* the parts of a core with two dots
PartsOf(core) ==
    LET i == CHOOSE d \in DotsOf(core) : \A e \in DotsOf(core) : d <= e
        j == CHOOSE d \in DotsOf(core) : \A e \in DotsOf(core) : e <= d
    IN  <<SubSeq(core, 1, i - 1), SubSeq(core, i + 1, j - 1),
          SubSeq(core, j + 1, Len(core))>>

\* the digits of a part, without a leading plus sign
Unsigned(part) == IF Len(part) > 0 /\ Head(part) = "+" THEN Tail(part) ELSE part

\* a decimal number of any size
IsNumber(part) ==
    /\ Len(Unsigned(part)) > 0
    /\ \A i \in 1..Len(Unsigned(part)) : IsDigit(CharAt(Unsigned(part), i))

\* the digits of a number from its first non-zero digit on
Significant(part) ==
    LET d == Unsigned(part)
        zeros == CHOOSE n \in 0..Len(d) :
                    /\ \A i \in 1..n : CharAt(d, i) = "0"
                    /\ n < Len(d) => CharAt(d, n + 1) /= "0"
    IN  SubSeq(d, zeros + 1, Len(d))

\* p < q as numbers, compared digit by digit
NumberLess(p, q) ==
    LET a == Significant(p)
        b == Significant(q)
    IN  \/ Len(a) < Len(b)
        \/ /\ Len(a) = Len(b)
           /\ \E i \in 1..Len(a) :
                 /\ DigitValue(CharAt(a, i)) < DigitValue(CharAt(b, i))
                 /\ \A j \in 1..(i - 1) : CharAt(a, j) = CharAt(b, j)

U32MaxDigits == "4294967295"

\* a decimal number no greater than u32::MAX
IsU32Number(part) == IsNumber(part) /\ ~NumberLess(U32MaxDigits, part)

\* three parts that are numbers
ThreeNumbers(s) ==
    /\ Cardinality(DotsOf(VersionCore(s))) = 2
    /\ \A k \in 1..3 : IsNumber(PartsOf(VersionCore(s))[k])

\* three parts that are numbers a u32 holds
ThreeU32Numbers(s) ==
    /\ Cardinality(DotsOf(VersionCore(s))) = 2
    /\ \A k \in 1..3 : IsU32Number(PartsOf(VersionCore(s))[k])

\* the (major, minor, patch) of s is lexicographically below that of t
TripleLess(s, t) ==
    LET a == PartsOf(VersionCore(s))
        b == PartsOf(VersionCore(t))
    IN  \E k \in 1..3 :
           /\ NumberLess(a[k], b[k])
           /\ \A j \in 1..(k - 1) : Significant(a[j]) = Significant(b[j])

\* C21 as stated: validate_update_version returns Ok exactly when both strings,
\* without leading 'v' characters and without a '-' suffix, consist of three
\* numeric parts and the candidate triple is not below the current one.
C21_NumericParts ==
    lastCommand.fn = "validate_update_version" =>
        LET current == lastCommand.args[1]
            candidate == lastCommand.args[2]
        IN  lastCommand.result = "Ok" <=>
               /\ ThreeNumbers(current) /\ ThreeNumbers(candidate)
               /\ ~TripleLess(candidate, current)

\* C21 (amended: parts a u32 holds): validate_update_version returns Ok exactly
\* when both strings, without leading 'v' characters and without what follows
\* the first '-', consist of three parts each of which is a decimal number of
\* at most u32::MAX (4294967295), with or without a leading '+', and the
\* candidate (major, minor, patch) is lexicographically not below the current
\* one; every other pair of strings is rejected.
C21_U32Parts ==
    lastCommand.fn = "validate_update_version" =>
        LET current == lastCommand.args[1]
            candidate == lastCommand.args[2]
        IN  lastCommand.result = "Ok" <=>
               /\ ThreeU32Numbers(current) /\ ThreeU32Numbers(candidate)
               /\ ~TripleLess(candidate, current)

\* "v1.1.9" against the candidate "1.0.10-dev": a lower minor version with a
\* higher patch number was rejected
C21_Witness ==
    /\ lastCommand.fn = "validate_update_version"
    /\ lastCommand.args = <<"v1.1.9", "1.0.10-dev">>
    /\ lastCommand.result = "Err"

-----------------------------------------------------------------------------
(* SpecOauth: validate_oauth_url is handed URLs of several schemes, with     *)
(* hosts written as names and as IPv4 and IPv6 addresses of every range      *)

HttpsSpellings == {"https", "HTTPS"}
HttpSpellings == {"http", "Http"}
OtherSchemes == {"ftp", "javascript", "file", "data"}
\* after the scheme of http and https the parser skips any run of slashes
AuthorityMarks == {"://", ":"}
GoodPorts == {"", ":3000"}
BadPorts == {":99999", ":80x"}
\* texts with no scheme, or with nothing that is a host behind it
Unparsable == {"", "not a url", "//github.com/MyWallpapers/app/releases/download/x",
               "/callback", "https://", "https:", "http://", "https://:3000/x",
               "1https://localhost/", " "}

\* host texts that denote localhost, 127.0.0.1 or [::1]
LocalHosts == {"localhost", "LOCALHOST", "127.0.0.1", "127.1", "0x7f.0.0.1", "2130706433",
               "[::1]", "[0:0:0:0:0:0:0:1]", "evil.com@localhost"}
Ipv4Private == {"10.0.0.1", "172.16.0.1", "172.31.255.255", "192.168.1.1", "10.1"}
Ipv4Loopback == {"127.0.0.1", "127.1", "0x7f.0.0.1", "2130706433", "127.255.0.9"}
Ipv4LinkLocal == {"169.254.1.1"}
Ipv4Unspecified == {"0.0.0.0", "0"}
Ipv4Public == {"8.8.8.8", "172.32.0.1", "172.15.0.1", "192.169.1.1", "11.0.0.1",
               "169.253.1.1", "126.0.0.1", "0.0.0.1"}
Ipv6Loopback == {"[::1]", "[0:0:0:0:0:0:0:1]"}
Ipv6Unspecified == {"[::]"}
Ipv6UniqueLocal == {"[fc00::1]", "[fd12::1]", "[FDFF::1]"}
Ipv6LinkLocal == {"[fe80::1]", "[febf:1::1]"}
Ipv6MappedPrivate == {"[::ffff:10.0.0.1]", "[::ffff:192.168.1.1]", "[::ffff:a00:1]"}
Ipv6MappedLoopback == {"[::ffff:127.0.0.1]", "[::ffff:7f00:1]"}
Ipv6MappedLinkLocal == {"[::ffff:169.254.0.1]"}
Ipv6MappedUnspecified == {"[::ffff:0.0.0.0]"}
Ipv6Public == {"[2607:f8b0:4004:800::200e]", "[fec0::1]", "[fbff::1]", "[fe00::1]",
               "[::ffff:8.8.8.8]", "[::10.0.0.1]", "[::2]", "[1::ffff:10.0.0.1]"}
Domains == {"accounts.google.com", "evil.com", "localhost", "localhost.",
            "localhost@evil.com", "10.0.0.1.nip.io"}
BadHosts == {"256.0.0.1", "[::1", "[::g]", "1.2.3.4.5", "a b", "[1:2:3:4:5:6:7:8:9]",
             "[::ffff:10.0.0.256]", "10.0.0.0x"}

OauthHosts ==
    LocalHosts \cup Ipv4Private \cup Ipv4Loopback \cup Ipv4LinkLocal \cup Ipv4Unspecified
    \cup Ipv4Public \cup Ipv6Loopback \cup Ipv6Unspecified \cup Ipv6UniqueLocal
    \cup Ipv6LinkLocal \cup Ipv6MappedPrivate \cup Ipv6MappedLoopback
    \cup Ipv6MappedLinkLocal \cup Ipv6MappedUnspecified \cup Ipv6Public \cup Domains
    \cup BadHosts
OauthPaths == {"", "/o/oauth2/auth?client_id=123"}

\* the URLs of the given schemes, hosts and ports
UrlsOf(schemes, hosts, ports, paths) ==
    {scheme \o mark \o host \o port \o path :
        scheme \in schemes, mark \in AuthorityMarks, host \in hosts, port \in ports,
        path \in paths}

OauthUrls ==
    UrlsOf(HttpsSpellings \cup HttpSpellings \cup OtherSchemes, OauthHosts, GoodPorts,
           OauthPaths)
    \cup UrlsOf(HttpsSpellings \cup HttpSpellings, {"localhost", "8.8.8.8"}, BadPorts,
                OauthPaths)
    \cup Unparsable

InitOauth == Init

NextOauth ==
    /\ lastCommand = NoCommand
    /\ \E url_str \in OauthUrls : ValidateOauthUrl(url_str)

SpecOauth == InitOauth /\ [][NextOauth]_vars

\* the hosts C22 names for https: private, loopback, link-local and unspecified
\* IPv4 addresses; loopback, unspecified, unique-local and link-local IPv6
\* addresses and IPv4-mapped private ones
NamedInternal ==
    Ipv4Private \cup Ipv4Loopback \cup Ipv4LinkLocal \cup Ipv4Unspecified
    \cup Ipv6Loopback \cup Ipv6Unspecified \cup Ipv6UniqueLocal \cup Ipv6LinkLocal
    \cup Ipv6MappedPrivate

\* IPv4-mapped addresses whose IPv4 address is loopback, link-local or unspecified
MappedInternal == Ipv6MappedLoopback \cup Ipv6MappedLinkLocal \cup Ipv6MappedUnspecified

\* the http URLs of localhost, 127.0.0.1 and [::1]
LocalHttpUrls == UrlsOf(HttpSpellings, LocalHosts, GoodPorts, OauthPaths)

\* the https URLs of the hosts that are none of the named ones
HttpsUrlsNotNamed ==
    UrlsOf(HttpsSpellings, (OauthHosts \ BadHosts) \ NamedInternal, GoodPorts, OauthPaths)

\* the https URLs of the hosts that are neither named nor mapped internal ones
HttpsUrlsNotInternal ==
    UrlsOf(HttpsSpellings, ((OauthHosts \ BadHosts) \ NamedInternal) \ MappedInternal,
           GoodPorts, OauthPaths)

\* C22 as stated: validate_oauth_url accepts a URL exactly when it parses and
\* either its scheme is http and its host is localhost, 127.0.0.1 or [::1], or
\* its scheme is https and its host is none of the named internal addresses.
C22_OauthNamedRanges ==
    lastCommand.fn = "validate_oauth_url" =>
        (lastCommand.result = "Ok" <=>
            lastCommand.args[1] \in LocalHttpUrls \cup HttpsUrlsNotNamed)

\* C22 (amended: mapped addresses of every internal range): validate_oauth_url
\* accepts a URL exactly when it parses and either its scheme is http and its
\* host is localhost, 127.0.0.1 or [::1], or its scheme is https and its host is
\* not a private, loopback, link-local or unspecified IPv4 address, nor a
\* loopback, unspecified, unique-local (fc00::/7) or link-local (fe80::/10) IPv6
\* address, nor an IPv4-mapped IPv6 address whose IPv4 address is private,
\* loopback, link-local or unspecified; every other scheme and every
\* unparsable input is rejected.
C22_OauthInternalRanges ==
    lastCommand.fn = "validate_oauth_url" =>
        (lastCommand.result = "Ok" <=>
            lastCommand.args[1] \in LocalHttpUrls \cup HttpsUrlsNotInternal)

\* an https URL whose host is the IPv4-mapped form of a link-local address was
\* rejected
C22_Witness ==
    /\ lastCommand.fn = "validate_oauth_url"
    /\ lastCommand.args = <<"https://[::ffff:169.254.0.1]:3000/o/oauth2/auth?client_id=123">>
    /\ lastCommand.result = "Err"

-----------------------------------------------------------------------------
(* SpecUpdater: the frontend hands updater endpoints to                      *)
(* validate_updater_endpoint and to build_updater                            *)

\* host texts that denote the host github.com
GithubHosts == {"github.com", "GitHub.com", "github.com:443", "user@github.com",
                "evil.com@github.com"}
OtherEndpointHosts == {"evil.com", "github.com.evil.com", "github.com@evil.com",
                       "github.com.", "api.github.com", "notgithub.com", "github.co",
                       "140.82.112.3", "[::1]"}
\* path texts whose path begins with /MyWallpapers/app/releases/download/
ReleasePaths == {"/MyWallpapers/app/releases/download/v1.0.0/latest.json",
                 "/MyWallpapers/app/releases/download/",
                 "/MyWallpapers/app/./releases/download/x",
                 "/MyWallpapers/x/../app/releases/download/x",
                 "/MyWallpapers/app/releases/download/../download/x",
                 "/MyWallpapers/app\\releases/download/x",
                 "/MyWallpapers/app/releases/download/x?y#z"}
OtherPaths == {"", "/evil/repo/releases/download/v1.0.0/latest.json",
               "/MyWallpapers/app/releases/download/../../../../evil/x",
               "/MyWallpapers/app/releases/download/%2E%2E/x",
               "/MyWallpapers/app/releases/download/..",
               "/MyWallpapers/app/releases/download",
               "/MyWallpapers/app/releases/download%2Fx",
               "/mywallpapers/app/releases/download/x",
               "/x/MyWallpapers/app/releases/download/x",
               "//MyWallpapers/app/releases/download/x",
               "?/MyWallpapers/app/releases/download/x"}

EndpointUrls ==
    UrlsOf(HttpsSpellings, GithubHosts \cup OtherEndpointHosts \cup {"256.0.0.1", "a b"},
           {""}, ReleasePaths \cup OtherPaths)
    \cup UrlsOf(HttpSpellings \cup {"ftp"}, GithubHosts \cup {"evil.com"}, {""},
                ReleasePaths \cup {""})
    \cup Unparsable

InitUpdater == Init

NextUpdater ==
    \/ /\ lastCommand = NoCommand
       /\ \E endpoint \in EndpointUrls : ValidateUpdaterEndpoint(endpoint)
    \/ /\ lastCommand = NoCommand
       /\ \E endpoint \in EndpointUrls, built \in BOOLEAN :
             BuildUpdater(TRUE, endpoint, built)
    \/ /\ lastCommand = NoCommand
       /\ \E built \in BOOLEAN : BuildUpdater(FALSE, "", built)

SpecUpdater == InitUpdater /\ [][NextUpdater]_vars

\* the https URLs of github.com below /MyWallpapers/app/releases/download/
ReleaseUrls == UrlsOf(HttpsSpellings, GithubHosts, {""}, ReleasePaths)

\* C23 (updater endpoint): validate_updater_endpoint returns Ok exactly when the
\* URL parses, its scheme is https, its host is github.com and its path starts
\* with /MyWallpapers/app/releases/download/, and Err for every other input;
\* build_updater hands a caller-supplied endpoint to the updater only when that
\* validation passed, and with an endpoint that fails it returns an error
\* without building an updater.
C23_UpdaterEndpoint ==
    /\ lastCommand.fn = "validate_updater_endpoint" =>
          (lastCommand.result = "Ok" <=> lastCommand.args[1] \in ReleaseUrls)
    /\ lastCommand.fn = "build_updater" =>
          LET given == lastCommand.args[1]
              endpoint == lastCommand.args[2]
              r == lastCommand.result
          IN  /\ given /\ endpoint \in ReleaseUrls =>
                    r.endpoints = IF r.result = "Ok" THEN <<endpoint>> ELSE <<>>
              /\ given /\ endpoint \notin ReleaseUrls =>
                    r.result = "Err" /\ r.endpoints = <<>>
              /\ ~given => r.endpoints = IF r.result = "Ok" THEN <<"configured">> ELSE <<>>

\* build_updater was given an endpoint written with an upper-case scheme and
\* host and a ".." segment, and built the updater with it
C23_Witness ==
    /\ lastCommand.fn = "build_updater"
    /\ lastCommand.args = <<TRUE, "HTTPS:GitHub.com/MyWallpapers/x/../app/releases/download/x">>
    /\ lastCommand.result = [result |-> "Ok",
           endpoints |-> <<"HTTPS:GitHub.com/MyWallpapers/x/../app/releases/download/x">>]

-----------------------------------------------------------------------------
(* SpecDiscovery: pointer events over windows of the renderer's class, of    *)
(* this application and of others, before and after one of them is cached,  *)
(* and over the desktop's windows and windows of other applications         *)

RendererWindows ==
    {OurRwhh, PopupRwhh, InProcessRwhh, HelperRwhh, OrphanRwhh, ForeignRwhh,
     DesktopRwhh, EmbeddedRwhh}
DiscoveryWindows ==
    RendererWindows \cup {OurHwnd, ListView(1), ShellCoreWindow, ForeignCoreWindow,
                          AppWindow}
DiscoveryMsgs == {MOUSE_MOVE, MOUSE_LDOWN, MOUSE_LUP}
\* where the pointer is: out of double-click reach of the origin
DiscoveryPoint == <<CxDoubleClk + 1, CyDoubleClk + 1>>
\* relay messages in flight while the next pointer event arrives
DiscoveryQueue == 1

InitDiscovery == Init

NextDiscovery ==
    \/ \E msg \in DiscoveryMsgs, h \in DiscoveryWindows :
          Len(dispatchQueue) < DiscoveryQueue
          /\ PointerEvent(0, msg, h, DiscoveryPoint, <<0, 0>>, {})
    \/ DispatchWndProc

SpecDiscovery == InitDiscovery /\ [][NextDiscovery]_vars

\* pid is this application's process or one of its descendants
RECURSIVE DescendsFromUs(_, _)
DescendsFromUs(pid, depth) ==
    \/ pid = Pid.our
    \/ depth > 0 /\ \E ppid \in ProcessParent(pid) : DescendsFromUs(ppid, depth - 1)
OwnedByUs(h) == DescendsFromUs(WindowPid(h), 3)
\* the process that owns the parent window of h is this application's process
\* or a child process of it
ParentOwnedByUs(h) ==
    /\ GetParent(h) /= NULL_HWND
    /\ \/ WindowPid(GetParent(h)) = Pid.our
       \/ Pid.our \in ProcessParent(WindowPid(GetParent(h)))
RendererClass(h) == ClassOf(h) = "Chrome_RenderWidgetHostHWND"

\* C24 as stated: a window of the renderer's class is cached only when no
\* target is cached yet and its owning process is this application's process
\* or a descendant of it; a same-classed window of an unrelated process is
\* never cached and is classified as other; a cached target is never replaced.
C24_DiscoveryByOwner ==
    [][LET h == lastHook'.hwnd
       IN  /\ CHROME_RWHH' /= CHROME_RWHH =>
                 /\ CHROME_RWHH = NULL_HWND
                 /\ CHROME_RWHH' = h
                 /\ RendererClass(h)
                 /\ OwnedByUs(h)
           /\ RendererClass(h) /\ ~OwnedByUs(h) =>
                 CHROME_RWHH' /= h /\ lastHook'.relay = <<>> /\ lastHook'.icons = <<>>
           /\ CHROME_RWHH /= NULL_HWND => CHROME_RWHH' = CHROME_RWHH]_vars

\* C24 (renderer discovery): a window of the renderer's class is cached only
\* when no target is cached yet and it has a parent window whose owning process
\* is this application's process or a child process of it; a same-classed
\* window whose parent window belongs to any other process is never cached,
\* and is classified as other unless it is a descendant of the shell root;
\* a cached target is never replaced.
C24_DiscoveryByParentOwner ==
    [][LET h == lastHook'.hwnd
       IN  /\ CHROME_RWHH' /= CHROME_RWHH =>
                 /\ CHROME_RWHH = NULL_HWND
                 /\ CHROME_RWHH' = h
                 /\ RendererClass(h)
                 /\ ParentOwnedByUs(h)
           /\ RendererClass(h) /\ ~ParentOwnedByUs(h) =>
                 /\ CHROME_RWHH' /= h
                 /\ ~IsChild(PROGMAN_HWND, h) =>
                       lastHook'.relay = <<>> /\ lastHook'.icons = <<>>
           /\ CHROME_RWHH /= NULL_HWND => CHROME_RWHH' = CHROME_RWHH]_vars

\* our renderer's input window is cached, and a later event over a second
\* input window of our WebView2 was classified as other and left it cached
C24_Witness ==
    /\ CHROME_RWHH = OurRwhh
    /\ lastHook.hwnd = PopupRwhh
    /\ lastHook.relay = <<>>

-----------------------------------------------------------------------------
(* SpecWatch, continued: what a re-detection leaves in the hook state       *)

\* C25 (wholesale re-detection): after every successful watchdog re-detection
\* the hook state's container handle, shell-root handle, icon-layer handle and
\* explorer process id all equal the values of the newest detection result.
C25_RedetectionWholesale ==
    [][(WatchdogRan /\ lastWatchdog'.redetected) =>
          LET d == lastDetect'.result
          IN  /\ TARGET_PARENT_HWND' = d.target_parent
              /\ PROGMAN_HWND' = d.progman
              /\ SYSLISTVIEW_HWND' = d.syslistview
              /\ EXPLORER_PID' = d.explorer_pid]_vars

-----------------------------------------------------------------------------
(* SpecOrder, continued: the relay across a session lock                    *)

\* C26 (relay while locked): a message dispatched while IS_SESSION_ACTIVE is
\* false leads to no renderer input-injection call, also when it is a relay
\* message that the hook posted before the lock notification was processed.
C26_NoInjectionWhileLocked ==
    (lastDispatch.msg = WM_MWP_MOUSE /\ ~lastDispatch.session) => lastDispatch.calls = <<>>

-----------------------------------------------------------------------------
(* SpecIcons, continued: teardown against the hook thread's start-up        *)

\* C27 (teardown removes the hook): once a call of teardown has returned, none
\* is under way and the hook thread is past its install-and-store step (or
\* was never started because setup failed), no pointer hook of this process
\* is installed.
C27_NoHookAfterTeardown ==
    (TeardownQuiet /\ setupPc /= "none" /\ hookPc \notin {"start", "installed"}) =>
        hooksInstalled = {}

-----------------------------------------------------------------------------
(* SpecSession, continued: what the hook hands to the next hook             *)

\* C28 (no event is consumed): whatever the event code, the event kind, the
\* window under the cursor and the session state, hook_proc hands the event it
\* was given, unmodified, to the next hook, also when it has forwarded the
\* event to the content surface or to the icon layer.
C28_NeverConsumes ==
    lastHook /= NoHook =>
        /\ lastHook.next.code = lastHook.event.code
        /\ lastHook.next.wparam = lastHook.event.wparam
        /\ lastHook.next.info = lastHook.event.info

\* a press over the icon list was forwarded to the content surface and to the
\* icon layer, and was handed on to the next hook as well
C28_Witness ==
    /\ lastHook.event.wparam = MOUSE_LDOWN
    /\ lastHook.hwnd = ListView(1)
    /\ lastHook.relay /= <<>>
    /\ lastHook.icons /= <<>>
    /\ lastHook.next = lastHook.event

-----------------------------------------------------------------------------
(* SpecDiscovery, continued: events over the windows of other applications  *)

\* h is none of the windows the hook treats as desktop: not the content
\* surface, not a renderer input window of this application, not the
\* container, not the shell root or one of its descendants, and not a
\* CoreWindow of explorer
OtherWindow(h) ==
    /\ h \notin {OurHwnd, TARGET_PARENT_HWND, PROGMAN_HWND}
    /\ ~(RendererClass(h) /\ ParentOwnedByUs(h))
    /\ ~IsChild(PROGMAN_HWND, h)
    /\ ~(ClassOf(h) = "Windows.UI.Core.CoreWindow" /\ WindowPid(h) = Pid.explorer)

\* C29 (events over other windows): a hook call for an event whose window under
\* the cursor is none of the desktop's windows posts no relay message and
\* nothing to the icon layer, leaves the drag button mask, the double-click
\* tracking and the cached handles as they were, and hands the event to the
\* next hook.
C29_OtherWindowUntouched ==
    [][\A msg \in {lastHook'.event.wparam}, h \in {lastHook'.hwnd} :
          (OtherWindow(h) /\ PointerEvent(0, msg, h, DiscoveryPoint, <<0, 0>>, {})) =>
              /\ lastHook'.relay = <<>>
              /\ lastHook'.icons = <<>>
              /\ dispatchQueue' = dispatchQueue
              /\ DRAG_VK' = DRAG_VK
              /\ <<LAST_DOWN_TIME', LAST_DOWN_X', LAST_DOWN_Y'>> = lastDown
              /\ prevPress' = prevPress
              /\ CHROME_RWHH' = CHROME_RWHH
              /\ DESKTOP_CORE_HWND' = DESKTOP_CORE_HWND
              /\ <<WEBVIEW_HWND', SYSLISTVIEW_HWND', TARGET_PARENT_HWND', PROGMAN_HWND'>>
                    = <<WEBVIEW_HWND, SYSLISTVIEW_HWND, TARGET_PARENT_HWND, PROGMAN_HWND>>
              /\ lastHook'.next = lastHook'.event]_vars

\* with the left button held since a press on the icon list and our renderer's
\* input window cached, a move over another browser's input window was passed
\* through and left all of that in place
C29_Witness ==
    /\ lastHook.hwnd = ForeignRwhh
    /\ lastHook.event.wparam = MOUSE_MOVE
    /\ lastHook.relay = <<>>
    /\ lastHook.next = lastHook.event
    /\ DRAG_VK = MK_LBUTTON
    /\ LAST_DOWN_TIME = 1
    /\ CHROME_RWHH = OurRwhh

-----------------------------------------------------------------------------
(* Spec, continued: the button mask of forwarded moves                      *)

\* C30 (button mask of moves): the mask carried by a move forwarded to the
\* content surface is non-zero exactly while some button whose press was
\* forwarded has not been released yet, and names such a button.
C30_MaskTracksHeld ==
    (lastHook.event.wparam = MOUSE_MOVE /\ lastHook.relay /= <<>>) =>
        LET vk == lastHook.relay[1].wp[2]
        IN  /\ vk /= MK_NONE <=> forwardedDown /= {}
            /\ vk /= MK_NONE => ButtonOfMask(vk) \in forwardedDown

-----------------------------------------------------------------------------
(* SpecDbl, continued: what a synthesized double-click is paired with       *)

\* C31 (a double-click needs an earlier press): a left press goes to the icon
\* layer as WM_LBUTTONDBLCLK only if an earlier left press went there as a
\* plain press, not yet paired into a double-click, within the double-click
\* time and distance of it; the first press after start-up and the press
\* after a synthesized double-click are plain presses.
C31_DoubleClickNeedsEarlierPress ==
    (lastHook.icons /= <<>> /\ lastHook.icons[1].msg = WM_LBUTTONDBLCLK) =>
        LET e == lastHook.event
            p == lastHook.prev
        IN  /\ e.wparam = MOUSE_LDOWN
            /\ p.msg = MOUSE_LDOWN
            /\ e.info[3] - p.time \in 0..DoubleClickTime
            /\ Abs(e.info[1][1] - p.x) <= CxDoubleClk \div 2
            /\ Abs(e.info[1][2] - p.y) <= CyDoubleClk \div 2

-----------------------------------------------------------------------------
(* SpecRelay: post_mouse called with values from the corners of its domain, *)
(* and the message it posts unpacked by dispatch_wnd_proc                   *)

RelayKinds == {0, MOUSE_MOVE, MOUSE_LDOWN, MOUSE_WHEEL, 65535}
RelayMasks == {MK_NONE, MK_LBUTTON, MK_MBUTTON, 32768, 65535}
\* aux values as <<low, high>> limbs: 0, 120, -120 sign-extended, 2^31, 2^32 - 1
RelayData == {<<0, 0>>, <<120, 0>>, <<65416, 65535>>, <<0, 32768>>, <<65535, 65535>>}
RelayCoords == {-32768, -1, 0, 1, 32767}

InitRelay ==
    /\ COMP_CONTROLLER_PTR = 64
    /\ relayTrace = [NoTrace EXCEPT !.on = TRUE]
    /\ now = 1
    /\ wvOrigin = <<0, 0>>
    /\ virtualScreen = <<1920, 1080>>
    /\ SetupDone

\* forward calls post_mouse(kind, vk, data, x, y)
PostMouse(kind, vk, data, x, y) ==
    /\ dispatchQueue' = PostMessageW(dispatchQueue, post_mouse(kind, vk, data, x, y))
    /\ relayTrace' = [relayTrace EXCEPT
                         !.seen = Append(@, [kind |-> kind, vk |-> vk, data |-> data,
                                             x |-> x, y |-> y]),
                         !.posted = @ \o post_mouse(kind, vk, data, x, y)]
    /\ UNCHANGED <<hookStatics, lastDown, layerStatics, now, held, slvVisible, wvOrigin,
                   lastHook, lastDispatch, gesture, prevPress, forwardedDown, shellEnv,
                   lifecycle, watchObs, leaveVars, commandObs, workerVars>>

NextRelay ==
    \/ /\ relayTrace.seen = <<>>
       /\ \E kind \in RelayKinds, vk \in RelayMasks, data \in RelayData,
             x \in RelayCoords, y \in RelayCoords : PostMouse(kind, vk, data, x, y)
    \/ DispatchWndProc

SpecRelay == InitRelay /\ [][NextRelay]_vars

\* C32 (relay round trip): the kind, button mask, aux value, x and y that
\* dispatch_wnd_proc hands to the renderer are those post_mouse was called
\* with; the move it sends ahead of a press carries the same mask, x and y.
C32_RelayRoundTrip ==
    \A i \in 1..Len(relayTrace.handed) :
        LET p == relayTrace.seen[i]
            calls == relayTrace.handed[i]
        IN  /\ calls /= <<>>
            /\ EventCall(calls) =
                  RendererCall("send_mouse_input_raw", p.kind, p.vk, p.data, p.x, p.y)
            /\ \A j \in 1..Len(calls) :
                  calls[j].vk = p.vk /\ calls[j].x = p.x /\ calls[j].y = p.y

\* a wheel message with a negative delta, the highest mask and the corner
\* coordinates went through the relay
C32_Witness ==
    /\ relayTrace.seen = <<[kind |-> MOUSE_WHEEL, vk |-> 65535, data |-> <<65416, 65535>>,
                            x |-> -32768, y |-> 32767]>>
    /\ Len(relayTrace.handed) = 1
    /\ lastDispatch.calls =
          <<RendererCall("send_mouse_input_raw", MOUSE_WHEEL, 65535, <<65416, 65535>>,
                         -32768, 32767)>>

-----------------------------------------------------------------------------
(* SpecPoll: the wait for the renderer after setup, with pointer events    *)
(* arriving and the relay running, whether or not CreateWindowExW gave     *)
(* init_dispatch_window a relay window                                     *)

\* the handle wry::get_last_composition_controller_ptr returns once the renderer is up
ControllerPtr == 64
PollScreens == {<<1920, 1080>>, <<65537, 2160>>}
PollMsgs == {MOUSE_MOVE, MOUSE_LDOWN, MOUSE_LUP}
PollWindows == {OurHwnd, AppWindow}
\* relay messages in flight while the next pointer event arrives
PollQueue == 1

InitPoll ==
    /\ COMP_CONTROLLER_PTR = 0
    /\ relayTrace = NoTrace
    /\ now = 1
    /\ wvOrigin = <<0, 0>>
    /\ virtualScreen \in PollScreens
    /\ SetupReached
    /\ DISPATCH_HWND \in {NULL_HWND, DispatchHwnd}
    /\ pollThread = [pc |-> "poll", tries |-> 0, got |-> 0, w |-> virtualScreen[1],
                     h |-> virtualScreen[2], posted |-> <<>>]

NextPoll ==
    \/ \E ptr \in {0, ControllerPtr} : PollAttempt(ptr)
    \/ \E msg \in PollMsgs, h \in PollWindows :
          Len(dispatchQueue) < PollQueue
          /\ PointerEvent(0, msg, h, <<1, 1>>, <<0, 0>>, {})
    \/ DispatchWndProc

\* the poll thread sleeps 10 ms between attempts and is scheduled again
SpecPoll ==
    InitPoll /\ [][NextPoll]_vars /\ WF_vars(\E ptr \in {0, ControllerPtr} : PollAttempt(ptr))

\* C33: without a dispatch window the hook posts nothing, and a pointer or
\* set-bounds message dispatched while the renderer handle is unset leads to
\* no renderer call; the message is gone from the queue, nothing is posted
\* again for it, and the hook hands the original event to the next hook.
C33_FailuresSwallowed ==
    /\ [](DISPATCH_HWND = NULL_HWND => dispatchQueue = <<>> /\ lastHook.relay = <<>>)
    /\ [](lastHook.next = lastHook.event)
    /\ [](lastDispatch.msg \in {WM_MWP_MOUSE, WM_MWP_SETBOUNDS_PUB}
          /\ lastDispatch.ptr = 0 => lastDispatch.calls = <<>>)
    /\ [](COMP_CONTROLLER_PTR = 0 =>
             \A w \in {0, 1920, 65537}, h \in {0, 1080} :
                dispatch_calls(post_setbounds_unguarded(w, h)[1]) = <<>>)
    /\ [][/\ lastDispatch' /= lastDispatch => dispatchQueue' = Tail(dispatchQueue)
          /\ (lastHook' /= lastHook /\ DISPATCH_HWND = NULL_HWND) =>
                 dispatchQueue' = dispatchQueue]_vars

\* a press over the content surface was handled with no dispatch window
C33_Witness ==
    /\ DISPATCH_HWND = NULL_HWND
    /\ lastHook.event.wparam = MOUSE_LDOWN /\ lastHook.hwnd = OurHwnd
    /\ DRAG_VK = MK_LBUTTON
    /\ lastHook.relay = <<>> /\ lastHook.next = lastHook.event

-----------------------------------------------------------------------------
(* SpecLock: the session flag from start-up on -- setup, the hook thread,  *)
(* pointer events, session changes of every kind, the icon toggle and      *)
(* teardown                                                                *)

WTS_SESSION_LOGON == 5
LockCodes == {WTS_SESSION_LOGON, WTS_SESSION_LOCK, WTS_SESSION_UNLOCK}
LockMsgs == {MOUSE_MOVE, MOUSE_LDOWN}

InitLock ==
    /\ Unstarted
    /\ relayTrace = NoTrace
    /\ ourWindow = PlainWindow
    /\ virtualScreen = <<1920, 1080>>
    /\ shellGen = 1
    /\ progmanUp = TRUE
    /\ topology = "direct"
    /\ workerUp = TRUE
    /\ spawnLeft = 0

NextLock ==
    \/ EnsureInWorkerW
    \/ HookInstall
    \/ HookStore
    \/ \E msg \in LockMsgs :
          /\ Len(dispatchQueue) < RoutingQueue
          /\ PointerEvent(0, msg, OurHwnd, <<1, 1>>, <<0, 0>>, {})
    \/ DispatchWndProc
    \/ \E code \in LockCodes :
          \* WTSRegisterSessionNotification: the relay window is the receiver
          /\ DISPATCH_HWND /= NULL_HWND
          /\ Len(dispatchQueue) < RoutingQueue
          /\ SessionNotify(code)
    \/ \E visible \in BOOLEAN : set_desktop_icons_visible(visible)
    \/ TeardownEnter("quit")
    \/ TeardownShow("quit")
    \/ TeardownUnhook("quit")

SpecLock == InitLock /\ [][NextLock]_vars

\* the relay is handed its oldest message, a session change with this code
SessionChangeHandled(code) ==
    /\ dispatchQueue /= <<>>
    /\ dispatchQueue' = Tail(dispatchQueue)
    /\ Head(dispatchQueue).msg = WM_WTSSESSION_CHANGE
    /\ Head(dispatchQueue).wp[1] = code

\* C34: IS_SESSION_ACTIVE starts true; a step that makes it false is the
\* relay handling a session-lock notification and a step that makes it true
\* is the relay handling a session-unlock notification; handling a lock
\* leaves it false and handling an unlock leaves it true, and no other step
\* (other session-change codes, pointer relay messages, setup, the hook, the
\* icon toggle, teardown) changes it.
C34_SessionActiveWriters ==
    /\ IS_SESSION_ACTIVE = TRUE
    /\ [][/\ (IS_SESSION_ACTIVE /\ ~IS_SESSION_ACTIVE') =>
                 SessionChangeHandled(WTS_SESSION_LOCK)
          /\ (~IS_SESSION_ACTIVE /\ IS_SESSION_ACTIVE') =>
                 SessionChangeHandled(WTS_SESSION_UNLOCK)
          /\ SessionChangeHandled(WTS_SESSION_LOCK) => ~IS_SESSION_ACTIVE'
          /\ SessionChangeHandled(WTS_SESSION_UNLOCK) => IS_SESSION_ACTIVE']_vars

\* while locked, the relay handled a logon notification and the flag stayed false
C34_Witness ==
    /\ ~IS_SESSION_ACTIVE
    /\ lastDispatch.msg = WM_WTSSESSION_CHANGE
    /\ lastDispatch.wp[1] = WTS_SESSION_LOGON
    /\ ~lastDispatch.session

-----------------------------------------------------------------------------
(* SpecWatch, continued: the container detection returns                   *)

\* C35: when a detection returns a container other than the shell root,
\* the container is an existing WorkerW with no SHELLDLL_DefView child at
\* that moment, whether the icon view sits under the shell root or under
\* another top-level window.
C35_ContainerHostsNoIcons ==
    [][(/\ lastDetect' /= lastDetect
        /\ lastDetect'.result.ok
        /\ lastDetect'.result.target_parent /= lastDetect'.result.progman) =>
           \A tp \in {lastDetect'.result.target_parent} :
              /\ ClassOf(tp) = "WorkerW"
              /\ IsWindow(tp)'
              /\ FindWindowExW(tp, NULL_HWND, "SHELLDLL_DefView", workerUp)' = NULL_HWND]_vars

\* with the icon view under its own top-level WorkerW, detection returned
\* the other WorkerW
C35_Witness ==
    /\ lastDetect.by /= "none" /\ lastDetect.result.ok
    /\ lastDetect.topo = "nested" /\ topology = "nested"
    /\ IsWindow(IconHostWorkerW(shellGen))
    /\ lastDetect.result.target_parent = WallpaperWorkerW(shellGen)
    /\ lastDetect.result.syslistview = ListView(shellGen)

-----------------------------------------------------------------------------
(* Spec, continued: the drag button across wheel and move events          *)

\* C36: after hook_proc has handled a move or a wheel event, DRAG_VK is
\* what it was when the event arrived, whether the event was forwarded to
\* the content surface or passed over another application's window.
C36_WheelAndMoveKeepDrag ==
    lastHook.event.wparam \in {MOUSE_MOVE, MOUSE_WHEEL, MOUSE_HWHEEL} =>
        DRAG_VK = lastHook.drag

\* the wheel turned over the content surface while the left button was dragging
C36_Witness ==
    /\ lastHook.event.wparam = MOUSE_WHEEL
    /\ lastHook.hwnd = OurHwnd /\ lastHook.relay /= <<>>
    /\ lastHook.drag = MK_LBUTTON /\ DRAG_VK = MK_LBUTTON

-----------------------------------------------------------------------------
(* SpecLeave, continued: the intended-leave marker is good for one event   *)

\* this step is a call of the hook with a leave event for h that it processes
LeaveHandled(h) ==
    /\ lastLeave'.seq /= lastLeave.seq
    /\ lastLeave'.code >= 0 /\ lastLeave'.has_msg
    /\ lastLeave'.msg = [hwnd |-> h, message |-> WM_MOUSELEAVE_U32]
    /\ "MWP_T" \in props[h]

\* C37: on a window that carries "MWP_T", a processed leave event passes
\* exactly when "MWP_E" is set, and the marker is gone afterwards; without
\* the marker it is replaced with WM_NULL and the marker stays unset; the
\* marker appears only when the host sets it and disappears only when a
\* leave event on that window has passed. So one setting is used up by the
\* first leave event and the later ones are suppressed until the next
\* setting.
C37_MarkerGoodForOneLeave ==
    [][\A h \in LeaveWindows :
          /\ (LeaveHandled(h) /\ "MWP_E" \in props[h]) =>
                lastLeave'.out = WM_MOUSELEAVE_U32 /\ "MWP_E" \notin props'[h]
          /\ (LeaveHandled(h) /\ "MWP_E" \notin props[h]) =>
                lastLeave'.out = WM_NULL /\ "MWP_E" \notin props'[h]
          /\ ("MWP_E" \in props[h] /\ "MWP_E" \notin props'[h]) =>
                LeaveHandled(h) /\ lastLeave'.out = WM_MOUSELEAVE_U32
          /\ ("MWP_E" \notin props[h] /\ "MWP_E" \in props'[h]) =>
                lastLeave' = lastLeave]_vars

\* two leave events in a row on the monitored window after one setting of
\* the marker: the first passed, the second was replaced
C37_Witness ==
    /\ lastLeave.earlier.code >= 0
    /\ lastLeave.earlier.msg = [hwnd |-> OurRwhh, message |-> WM_MOUSELEAVE_U32]
    /\ lastLeave.earlier.marked = {"MWP_T", "MWP_E"}
    /\ lastLeave.earlier.out = WM_MOUSELEAVE_U32
    /\ lastLeave.code >= 0 /\ lastLeave.has_msg
    /\ lastLeave.msg = [hwnd |-> OurRwhh, message |-> WM_MOUSELEAVE_U32]
    /\ lastLeave.before[OurRwhh] = {"MWP_T"}
    /\ lastLeave.out = WM_NULL
    /\ props[OurRwhh] = {"MWP_T"}

-----------------------------------------------------------------------------
(* SpecPoll, continued: how the wait for the renderer ends                 *)

\* what the relay does with the set-bounds message of this poll
SetBoundsCall ==
    RendererCall("set_controller_bounds_raw", 0, 0, <<0, 0>>, pollThread.w, pollThread.h)

\* the poll is bounded and ends in one of two ways: with the handle stored
\* and `posted` as its messages, or after the last attempt with nothing done
PollEnds(posted) ==
    /\ pollThread.tries <= POLL_ATTEMPTS
    /\ pollThread.pc = "poll" =>
          pollThread.tries < POLL_ATTEMPTS /\ pollThread.got = 0
          /\ COMP_CONTROLLER_PTR = 0 /\ pollThread.posted = <<>>
    /\ (pollThread.pc = "done" /\ pollThread.got /= 0) =>
          COMP_CONTROLLER_PTR = pollThread.got /\ pollThread.posted = posted
    /\ (pollThread.pc = "done" /\ pollThread.got = 0) =>
          pollThread.tries = POLL_ATTEMPTS /\ COMP_CONTROLLER_PTR = 0
          /\ pollThread.posted = <<>>
    /\ lastDispatch.msg = WM_MWP_SETBOUNDS_PUB => lastDispatch.calls = <<SetBoundsCall>>

\* C38 as stated: the poll ends within 100 attempts; with the handle it
\* stores it and posts exactly one set-bounds message (0x8000+43, width,
\* height), which the relay turns into one set-bounds call with these two
\* values; without it the handle stays unset; a poll that is over does
\* nothing more.
C38_PollPostsOnce ==
    /\ [] PollEnds(post_setbounds_unguarded(pollThread.w, pollThread.h))
    /\ [][pollThread.pc = "done" => pollThread' = pollThread]_vars
    /\ <>(pollThread.pc = "done")

\* C38, amended: the one set-bounds message is posted if the relay window
\* exists; if init_dispatch_window did not get one, the handle is stored and
\* nothing is posted.
C38_PollPostsOnceToRelay ==
    /\ [] PollEnds(IF DISPATCH_HWND = NULL_HWND THEN <<>>
                   ELSE post_setbounds_unguarded(pollThread.w, pollThread.h))
    /\ [][pollThread.pc = "done" => pollThread' = pollThread]_vars
    /\ <>(pollThread.pc = "done")

\* the handle came at the third attempt and the relay has set the bounds of a
\* screen wider than 16 bits
C38_Witness ==
    /\ pollThread.pc = "done" /\ pollThread.tries = 3
    /\ pollThread.got = ControllerPtr /\ COMP_CONTROLLER_PTR = ControllerPtr
    /\ pollThread.w = 65537 /\ pollThread.h = 2160
    /\ Len(pollThread.posted) = 1
    /\ pollThread.posted[1].msg = WM_MWP_SETBOUNDS_PUB
    /\ lastDispatch.msg = WM_MWP_SETBOUNDS_PUB
    /\ lastDispatch.calls = <<SetBoundsCall>>

-----------------------------------------------------------------------------
(* SpecDbl, continued: the hook while the icons are hidden                 *)

\* C39: a call of hook_proc posts to SysListView32 only with a non-zero
\* cached handle whose window is visible at that moment; while the icon
\* list is hidden no call posts to it and LAST_DOWN_TIME, LAST_DOWN_X and
\* LAST_DOWN_Y keep their values, and an event over the desktop is still
\* posted to the relay for the content surface.
C39_HiddenIconsGetNothing ==
    [][/\ (lastHook' /= lastHook /\ lastHook'.icons /= <<>>) =>
             SYSLISTVIEW_HWND /= NULL_HWND /\ IsWindowVisible(SYSLISTVIEW_HWND)
       /\ (lastHook' /= lastHook /\ ~slvVisible) =>
             /\ lastHook'.icons = <<>>
             /\ prevPress' = prevPress
             /\ hook_forwards(lastHook'.event.code, lastHook'.hwnd) =>
                   /\ lastHook'.relay /= <<>>
                   /\ dispatchQueue' = dispatchQueue \o lastHook'.relay
       /\ ~slvVisible => UNCHANGED lastDown]_vars

\* with the icons hidden by set_desktop_icons_visible(false), a left press
\* later than the recorded one went to the content surface alone and the
\* record is as it was
C39_Witness ==
    /\ lastToggle.called /\ ~lastToggle.visible /\ lastToggle.ops /= <<>>
    /\ ~slvVisible /\ SYSLISTVIEW_HWND /= NULL_HWND
    /\ lastHook.event.wparam = MOUSE_LDOWN /\ lastHook.hwnd = ListView(1)
    /\ lastHook.relay /= <<>> /\ lastHook.icons = <<>>
    /\ LAST_DOWN_TIME > 0 /\ lastHook.event.info[3] > LAST_DOWN_TIME

-----------------------------------------------------------------------------
(* SpecMonitor: start_monitor and stop_monitor called in any order while    *)
(* the monitor threads they have spawned run (system_monitor.rs)            *)

\* threads start_monitor may spawn in one run
MaxMonitors == 3

\* the monitor threads that have not left their loop
LiveMonitors == {t \in DOMAIN monitorThreads : monitorThreads[t] /= "exited"}

\* start_monitor(app_handle, interval_secs): MONITOR_RUNNING.swap(true) tells
\* whether a monitor is taken to be running; if not, a thread is spawned,
\* which goes to the test of its while loop
StartMonitor ==
    /\ MONITOR_RUNNING \/ Len(monitorThreads) < MaxMonitors
    /\ MONITOR_RUNNING' = TRUE
    /\ monitorThreads' = IF MONITOR_RUNNING THEN monitorThreads
                         ELSE Append(monitorThreads, "check")
    /\ UNCHANGED <<hookStatics, lastDown, layerStatics, hookEnv, hookObs, shellEnv,
                   lifecycle, watchObs, leaveVars, commandObs, pollThread>>

\* stop_monitor()
StopMonitor ==
    /\ MONITOR_RUNNING' = FALSE
    /\ UNCHANGED <<hookStatics, lastDown, layerStatics, hookEnv, hookObs, shellEnv,
                   lifecycle, watchObs, leaveVars, commandObs, pollThread,
                   monitorThreads>>

\* one step of monitor thread t: the test of `while MONITOR_RUNNING.load()`,
\* the body up to its sleep (with or without categories to poll), or the
\* end of the sleep
MonitorStep(t) ==
    /\ t \in DOMAIN monitorThreads
    /\ monitorThreads[t] /= "exited"
    /\ monitorThreads' =
          [monitorThreads EXCEPT ![t] =
              IF @ = "check" THEN (IF MONITOR_RUNNING THEN "poll" ELSE "exited")
              ELSE IF @ = "poll" THEN "sleep"
              ELSE "check"]
    /\ UNCHANGED <<hookStatics, lastDown, layerStatics, hookEnv, hookObs, shellEnv,
                   lifecycle, watchObs, leaveVars, commandObs, pollThread,
                   MONITOR_RUNNING>>

InitMonitor == Init

NextMonitor ==
    \/ StartMonitor
    \/ StopMonitor
    \/ \E t \in 1..MaxMonitors : MonitorStep(t)

SpecMonitor == InitMonitor /\ [][NextMonitor]_vars

\* C40: at any time at most one monitor thread is in its polling loop, and a
\* start_monitor that finds MONITOR_RUNNING set spawns nothing.
C40_AtMostOneMonitor ==
    /\ [](Cardinality(LiveMonitors) <= 1)
    /\ [][MONITOR_RUNNING => Len(monitorThreads') = Len(monitorThreads)]_vars

====
